---- MODULE Spec2Model ----
(***************************************************************************)
(* Model of the deployment-tracking valuation service: the shared price    *)
(* snapshot and secondary (Skip) registry cache of prices.go, the token    *)
(* catalog of utils.go, the protocol adapters and computeHoldings with its *)
(* result cache (main.go).  Time is counted in minutes.                    *)
(***************************************************************************)
EXTENDS Integers, Sequences, FiniteSets, TLC

VARIABLES
    now,                \* the clock, in minutes
    proc,               \* "boot" (package init pending), "running", "crashed"
    pricesInitialized,  \* prices.go: var pricesInitialized
    priceCache,         \* prices.go: var priceCache (Nil or a snapshot)
    skipCache,          \* prices.go: var skipCache (Nil or a registry copy)
    resultCache,        \* main.go: var resultCache, bid -> Nil or an item
    req,                \* the computeHoldings call in progress and its position
    obs,                \* the last getTokenPrice call, as observed
    ret,                \* the last return of fetchAssetList or of an adapter operation
    out,                \* the last return of computeHoldings
    hist                \* bid -> the last result computed for it, while its window lasts,
                        \* and the time of the price snapshot it was computed from

vars == <<now, proc, pricesInitialized, priceCache, skipCache, resultCache,
          req, obs, ret, out, hist>>

(***************************************************************************)
(* Bounds of the model and constants of the program.                       *)
(***************************************************************************)
\* steps the clock takes
MaxTicks == 2
\* largest USD price the batched price feed quotes
MaxPrice == 2

\* const PriceCacheTTL = 30 * time.Minute
PriceCacheTTL == 30
\* cache.New(30*time.Minute, 10*time.Minute)
ResultCacheTTL == 30

Nil == [nil |-> TRUE]
Fail == [fail |-> TRUE]
\* an answer whose body cannot be decoded
Undecodable == [undecodable |-> TRUE]
NoErr == "ok"

(***************************************************************************)
(* float64 values: non-negative rationals num/den, with +Inf as 1/0 and    *)
(* NaN as 0/0 (the results of x/0 and 0/0).                                *)
(***************************************************************************)
RECURSIVE GCD(_, _)
GCD(a, b) == IF b = 0 THEN a ELSE GCD(b, a % b)

Rat(n, d) == IF d = 0 THEN [num |-> IF n = 0 THEN 0 ELSE 1, den |-> 0]
             ELSE IF n = 0 THEN [num |-> 0, den |-> 1]
             ELSE [num |-> n \div GCD(n, d), den |-> d \div GCD(n, d)]

Zero == Rat(0, 1)
Inf == Rat(1, 0)
NaN == Rat(0, 0)
IsNaN(a) == a.den = 0 /\ a.num = 0
IsInf(a) == a.den = 0 /\ a.num # 0
IsFinite(a) == a.den # 0

RatAdd(a, b) == IF IsNaN(a) \/ IsNaN(b) THEN NaN
                ELSE IF IsInf(a) \/ IsInf(b) THEN Inf
                ELSE Rat(a.num * b.den + b.num * a.den, a.den * b.den)

RatMul(a, b) == IF IsNaN(a) \/ IsNaN(b) THEN NaN
                ELSE IF IsInf(a) \/ IsInf(b)
                     THEN (IF a.num = 0 \/ b.num = 0 THEN NaN ELSE Inf)
                ELSE Rat(a.num * b.num, a.den * b.den)

\* a / b as float64 computes it: x/0 = +Inf for x > 0, 0/0 = NaN
RatDiv(a, b) == IF IsNaN(a) \/ IsNaN(b) THEN NaN
                ELSE IF IsInf(a) THEN (IF IsInf(b) THEN NaN ELSE Inf)
                ELSE IF IsInf(b) THEN Zero
                ELSE Rat(a.num * b.den, a.den * b.num)

RECURSIVE Pow10(_)
Pow10(d) == IF d = 0 THEN 1 ELSE 10 * Pow10(d - 1)

\* float64(amount) / math.Pow(10, float64(decimals))
Adjust(raw, decimals) == Rat(raw, Pow10(decimals))

RECURSIVE SumUSD(_)
SumUSD(balances) == IF balances = <<>> THEN Zero
                    ELSE RatAdd(balances[1].USDValue, SumUSD(Tail(balances)))

(***************************************************************************)
(* The outside world: the chain registry (primary), the Skip registry      *)
(* (secondary) and the batched price feed.  Each answer is one of a few    *)
(* representative payloads, or a failure.                                  *)
(***************************************************************************)
\* price-source ids the batched feed quotes
FeedIds == {"cosmos", "tok"}

\* the feed's price table at the time of a request; cosmos may be quoted at 0
FeedTables == {[id \in FeedIds |-> IF id = "cosmos" THEN a ELSE 1] :
                 a \in 0..MaxPrice}

\* chain registry payloads: chain.assets as denom -> {symbol, decimals, coingecko_id}
PrimaryA == [d \in {"uatom", "utok"} |->
               IF d = "uatom"
               THEN [symbol |-> "ATOM", decimals |-> 1, coingecko_id |-> "cosmos"]
               ELSE [symbol |-> "TOK", decimals |-> 0, coingecko_id |-> "tok"]]

PrimaryLists == {PrimaryA}

\* the chain_id the registry reports for each asset list URL
ChainIdOf(url) == IF url = "https://chains.cosmos.directory/neutron" THEN "neutron-1"
                  ELSE "osmosis-1"

SkipAssetOf(denom, chain, symbol, decimals, id) ==
    [Denom |-> denom, ChainID |-> chain, Symbol |-> symbol, Decimals |-> decimals,
     CoingeckoID |-> id, RecommendedSymbol |-> symbol \o ".rec"]

\* Skip registry payloads: chain_to_assets_map as chain id -> list of assets
SkipA == [c \in {"neutron-1", "osmosis-1"} |->
            IF c = "neutron-1"
            THEN <<SkipAssetOf("uatom", c, "ATOM", 0, "cosmos"),
                   SkipAssetOf("utok", c, "TOK", 1, "tok")>>
            ELSE <<SkipAssetOf("usk", c, "SK", 1, "tok")>>]

SkipB == [c \in {"neutron-1"} |-> <<SkipAssetOf("usk", c, "SK", 0, "tok"),
                                     SkipAssetOf("utok", c, "TOK", 1, "tok")>>]

SkipPayloads == {SkipA, SkipB}

(***************************************************************************)
(* types.go: the token catalog of a chain.                                 *)
(***************************************************************************)
ChainTokenInfo(denom, display, decimals, id) ==
    [Denom |-> denom, Display |-> display, Decimals |-> decimals, CoingeckoID |-> id]

\* the zero value of ChainTokenInfo, what a map read of an absent key yields
ZeroTokenInfo == ChainTokenInfo("", "", 0, "")

\* faulty variant: a missing denom yields the zero value and no error
GetTokenInfoZeroValue(c, denom) ==
    IF denom \in DOMAIN c.Tokens THEN [ok |-> TRUE, info |-> c.Tokens[denom]]
    ELSE [ok |-> TRUE, info |-> ZeroTokenInfo]

\* func (c *ChainInfo) GetTokenInfo(denom string) (*ChainTokenInfo, error)
GetTokenInfo(c, denom) ==
    IF denom \in DOMAIN c.Tokens THEN [ok |-> TRUE, info |-> c.Tokens[denom]]
    ELSE [ok |-> FALSE, info |-> ZeroTokenInfo]

\* assetData.Tokens[denom]: the plain map read
TokensAt(c, denom) ==
    IF denom \in DOMAIN c.Tokens THEN c.Tokens[denom] ELSE ZeroTokenInfo

(***************************************************************************)
(* prices.go: the Skip cache and the price snapshot.                       *)
(***************************************************************************)
RECURSIVE ByDenom(_)
\* assets[chainID][asset.Denom] = asset, in list order (a later entry overwrites)
ByDenom(list) ==
    IF list = <<>> THEN << >>
    ELSE LET rest == ByDenom(SubSeq(list, 1, Len(list) - 1))
             last == list[Len(list)]
         IN [d \in DOMAIN rest \cup {last.Denom} |->
               IF d = last.Denom THEN last ELSE rest[d]]

SkipAssetsOf(payload) == [c \in DOMAIN payload |-> ByDenom(payload[c])]

\* func fetchSkipAssets() error
fetchSkipAssets(sc, t, skipResp) ==
    IF sc # Nil /\ t - sc.Timestamp < PriceCacheTTL
    THEN [sc |-> sc, err |-> NoErr, req |-> 0]
    ELSE IF skipResp = Fail
    THEN [sc |-> sc, err |-> "fetching skip assets", req |-> 1]
    ELSE [sc |-> [Assets |-> SkipAssetsOf(skipResp), Timestamp |-> t],
          err |-> NoErr, req |-> 1]

\* the coinIDs set of initializePriceCache
CoinIDs(sc) ==
    UNION {{sc.Assets[c][d].CoingeckoID : d \in DOMAIN sc.Assets[c]} :
             c \in DOMAIN sc.Assets} \ {""}

\* the state of the package-level variables of prices.go
PriceState(init, pc, sc) == [init |-> init, pc |-> pc, sc |-> sc]

\* the first lines of initializePriceCache: is the snapshot still valid at time t
SnapshotFresh(ps, t) == ps.init /\ t - ps.pc.Timestamp < PriceCacheTTL

\* the snapshot built from the feed's answer to a request for ids
SnapshotOf(table, ids, t) ==
    [Prices |-> [id \in ids \cap DOMAIN table |-> table[id]], Timestamp |-> t]

\* faulty variant: the TTL check at the top is missing
initializePriceCacheAlwaysRefetches(ps, t, skipResp, table) ==
    LET s == fetchSkipAssets(ps.sc, t, skipResp) IN
    IF s.sc = Nil
    THEN [ps |-> ps, err |-> "panic", feedReq |-> 0, skipReq |-> s.req,
          ids |-> {}]
    ELSE IF table = Fail
    THEN [ps |-> PriceState(ps.init, ps.pc, s.sc),
          err |-> "fetching coingecko prices", feedReq |-> 1, skipReq |-> s.req,
          ids |-> CoinIDs(s.sc)]
    ELSE IF table = Undecodable
    THEN [ps |-> PriceState(ps.init, ps.pc, s.sc),
          err |-> "decoding coingecko response", feedReq |-> 1, skipReq |-> s.req,
          ids |-> CoinIDs(s.sc)]
    ELSE [ps |-> PriceState(TRUE, SnapshotOf(table, CoinIDs(s.sc), t), s.sc),
          err |-> NoErr, feedReq |-> 1, skipReq |-> s.req,
          ids |-> CoinIDs(s.sc)]

\* faulty variant: a refresh whose feed answer fails or cannot be decoded
\* installs an empty snapshot
initializePriceCacheClearsOnFailure(ps, t, skipResp, table) ==
    IF SnapshotFresh(ps, t)
    THEN [ps |-> ps, err |-> NoErr, feedReq |-> 0, skipReq |-> 0, ids |-> {}]
    ELSE LET s == fetchSkipAssets(ps.sc, t, skipResp) IN
         IF s.sc = Nil
         THEN [ps |-> ps, err |-> "panic", feedReq |-> 0, skipReq |-> s.req,
               ids |-> {}]
         ELSE IF table \in {Fail, Undecodable}
         THEN [ps |-> PriceState(ps.init, SnapshotOf(<<>>, {}, t), s.sc),
               err |-> IF table = Fail THEN "fetching coingecko prices"
                       ELSE "decoding coingecko response",
               feedReq |-> 1, skipReq |-> s.req, ids |-> CoinIDs(s.sc)]
         ELSE [ps |-> PriceState(TRUE, SnapshotOf(table, CoinIDs(s.sc), t), s.sc),
               err |-> NoErr, feedReq |-> 1, skipReq |-> s.req,
               ids |-> CoinIDs(s.sc)]

\* func initializePriceCache() error.  skipResp and table are the answers the
\* Skip registry and the price feed give if they are asked; ids are the ids
\* the request to the feed carries ("?ids=" + strings.Join(idList, ",")).  A
\* nil skipCache is dereferenced at "range skipCache.Assets": err = "panic".
initializePriceCache(ps, t, skipResp, table) ==
    IF SnapshotFresh(ps, t)
    THEN [ps |-> ps, err |-> NoErr, feedReq |-> 0, skipReq |-> 0, ids |-> {}]
    ELSE LET s == fetchSkipAssets(ps.sc, t, skipResp) IN
         IF s.sc = Nil
         THEN [ps |-> ps, err |-> "panic", feedReq |-> 0, skipReq |-> s.req,
               ids |-> {}]
         ELSE IF table = Fail
         THEN [ps |-> PriceState(ps.init, ps.pc, s.sc),
               err |-> "fetching coingecko prices", feedReq |-> 1, skipReq |-> s.req,
               ids |-> CoinIDs(s.sc)]
         ELSE IF table = Undecodable
         THEN [ps |-> PriceState(ps.init, ps.pc, s.sc),
               err |-> "decoding coingecko response", feedReq |-> 1,
               skipReq |-> s.req, ids |-> CoinIDs(s.sc)]
         ELSE [ps |-> PriceState(TRUE, SnapshotOf(table, CoinIDs(s.sc), t), s.sc),
               err |-> NoErr, feedReq |-> 1, skipReq |-> s.req,
               ids |-> CoinIDs(s.sc)]

\* faulty variant: a failed refresh falls back to the price of the old snapshot
getTokenPriceServesStale(ps, t, id, skipResp, table) ==
    LET r == initializePriceCache(ps, t, skipResp, table) IN
    IF r.err = "panic"
    THEN [ps |-> r.ps, price |-> 0, err |-> "panic",
          feedReq |-> r.feedReq, skipReq |-> r.skipReq,
          ids |-> r.ids]
    ELSE IF r.err # NoErr /\ ~(r.ps.init /\ id \in DOMAIN r.ps.pc.Prices)
    THEN [ps |-> r.ps, price |-> 0, err |-> "refreshing price cache",
          feedReq |-> r.feedReq, skipReq |-> r.skipReq,
          ids |-> r.ids]
    ELSE IF id \in DOMAIN r.ps.pc.Prices
    THEN [ps |-> r.ps, price |-> r.ps.pc.Prices[id], err |-> NoErr,
          feedReq |-> r.feedReq, skipReq |-> r.skipReq,
          ids |-> r.ids]
    ELSE [ps |-> r.ps, price |-> 0, err |-> "no price found",
          feedReq |-> r.feedReq, skipReq |-> r.skipReq,
          ids |-> r.ids]

\* faulty variant: an id the snapshot does not hold is priced 0
getTokenPriceDefaultsZero(ps, t, id, skipResp, table) ==
    LET r == initializePriceCache(ps, t, skipResp, table) IN
    IF r.err = "panic"
    THEN [ps |-> r.ps, price |-> 0, err |-> "panic",
          feedReq |-> r.feedReq, skipReq |-> r.skipReq,
          ids |-> r.ids]
    ELSE IF r.err # NoErr
    THEN [ps |-> r.ps, price |-> 0, err |-> "refreshing price cache",
          feedReq |-> r.feedReq, skipReq |-> r.skipReq,
          ids |-> r.ids]
    ELSE [ps |-> r.ps,
          price |-> IF id \in DOMAIN r.ps.pc.Prices THEN r.ps.pc.Prices[id] ELSE 0,
          err |-> NoErr, feedReq |-> r.feedReq, skipReq |-> r.skipReq,
          ids |-> r.ids]

\* func getTokenPrice(coingeckoId string) (float64, error)
getTokenPrice(ps, t, id, skipResp, table) ==
    LET r == initializePriceCache(ps, t, skipResp, table) IN
    IF r.err = "panic"
    THEN [ps |-> r.ps, price |-> 0, err |-> "panic",
          feedReq |-> r.feedReq, skipReq |-> r.skipReq,
          ids |-> r.ids]
    ELSE IF r.err # NoErr
    THEN [ps |-> r.ps, price |-> 0, err |-> "refreshing price cache",
          feedReq |-> r.feedReq, skipReq |-> r.skipReq,
          ids |-> r.ids]
    ELSE IF id \in DOMAIN r.ps.pc.Prices
    THEN [ps |-> r.ps, price |-> r.ps.pc.Prices[id], err |-> NoErr,
          feedReq |-> r.feedReq, skipReq |-> r.skipReq,
          ids |-> r.ids]
    ELSE [ps |-> r.ps, price |-> 0, err |-> "no price found",
          feedReq |-> r.feedReq, skipReq |-> r.skipReq,
          ids |-> r.ids]

\* func getAtomPrice() (float64, error)
getAtomPrice(ps, t, skipResp, table) == getTokenPrice(ps, t, "cosmos", skipResp, table)

\* what one getTokenPrice call did, as seen from outside: the state before
\* it, its argument, its result and the upstream requests it issued
PriceObs(before, t, id, r) ==
    [op |-> "getTokenPrice", id |-> id, at |-> t,
     wasFresh |-> before.init /\ t - before.pc.Timestamp < PriceCacheTTL,
     before |-> before.pc, after |-> r.ps.pc,
     price |-> r.price, err |-> r.err,
     feedReq |-> r.feedReq, skipReq |-> r.skipReq, ids |-> r.ids]

NoObs == [op |-> "none"]

SkipAnswers == SkipPayloads \cup {Fail}
FeedAnswers == FeedTables \cup {Fail, Undecodable}

(***************************************************************************)
(* utils.go: fetchAssetList builds the catalog of a chain.                 *)
(***************************************************************************)
\* the tokens map filled from chain.assets
PrimaryTokens(assets) ==
    [d \in DOMAIN assets |->
       ChainTokenInfo(d, assets[d].symbol, assets[d].decimals, assets[d].coingecko_id)]

SkipTokenInfo(asset) ==
    ChainTokenInfo(asset.Denom, asset.RecommendedSymbol, asset.Decimals, asset.CoingeckoID)

\* skipCache.Assets[chainID]: a missing chain reads as the nil map
SkipAssetsAt(sc, chainID) ==
    IF chainID \in DOMAIN sc.Assets THEN sc.Assets[chainID] ELSE << >>

\* faulty variant: a Skip asset overwrites the primary entry of its denom
supplementSecondaryWins(tokens, skipAssets) ==
    [d \in DOMAIN tokens \cup DOMAIN skipAssets |->
       IF d \in DOMAIN skipAssets THEN SkipTokenInfo(skipAssets[d]) ELSE tokens[d]]

\* "supplement with the skip token list": only denoms not yet in tokens are added
supplement(tokens, skipAssets) ==
    [d \in DOMAIN tokens \cup DOMAIN skipAssets |->
       IF d \in DOMAIN tokens THEN tokens[d] ELSE SkipTokenInfo(skipAssets[d])]

\* func fetchAssetList(assetListUrl string) (*ChainInfo, error)
fetchAssetList(sc, t, url, primaryResp, skipResp) ==
    IF primaryResp = Fail
    THEN [sc |-> sc, err |-> "fetching asset list", info |-> Nil, skipReq |-> 0,
          skipErr |-> FALSE]
    ELSE LET s == fetchSkipAssets(sc, t, skipResp) IN
         IF s.sc = Nil
         THEN [sc |-> s.sc, err |-> "panic", info |-> Nil, skipReq |-> s.req,
               skipErr |-> s.err # NoErr]
         ELSE [sc |-> s.sc, err |-> NoErr,
               info |-> [ChainID |-> ChainIdOf(url),
                         Tokens |-> supplement(PrimaryTokens(primaryResp),
                                               SkipAssetsAt(s.sc, ChainIdOf(url)))],
               skipReq |-> s.req, skipErr |-> s.err # NoErr]

PrimaryAnswers == PrimaryLists \cup {Fail}

\* http.Get(assetListUrl): a request to the empty URL cannot be sent
PrimaryAnswersFor(url) == IF url = "" THEN {Fail} ELSE PrimaryAnswers

(***************************************************************************)
(* types.go: the static configuration, and the chain state the adapters    *)
(* query (one representative pool per venue).                              *)
(***************************************************************************)
AstroportNeutron == "Astroport (Neutron)"
Osmosis == "Osmosis"
Margined == "Margined"
Demex == "Demex"
Shade == "Shade"
WhiteWhale == "Whitewhale"
Inter == "Inter"
Pryzm == "Pryzm"

\* the protocols that are not integrated: NewDexProtocolFromConfig gives them
\* the MissingPosition placeholder
MissingProtocols == {Margined, Demex, Shade, WhiteWhale, Inter, Pryzm}

protocolConfigMap ==
    [p \in {AstroportNeutron, Osmosis} \cup MissingProtocols |->
       [Protocol |-> p,
        AssetListURL |-> IF p = AstroportNeutron
                         THEN "https://chains.cosmos.directory/neutron"
                         ELSE IF p = Osmosis
                         THEN "https://chains.cosmos.directory/osmosis"
                         ELSE ""]]

\* bid 3 has two venues, the first one of a protocol that is not integrated
bidMap == [b \in {1, 2, 3} |->
             IF b = 1 THEN <<[Protocol |-> AstroportNeutron]>>
             ELSE IF b = 2 THEN <<[Protocol |-> Osmosis]>>
             ELSE <<[Protocol |-> Demex], [Protocol |-> Osmosis]>>]

\* func NewDexProtocolFromConfig: the adapter of a venue, by its protocol
NewDexProtocolFromConfig(config, venuePositionConfig) ==
    IF config.Protocol \in {Osmosis, AstroportNeutron}
    THEN [err |-> NoErr, adapter |-> config.Protocol]
    ELSE IF config.Protocol \in MissingProtocols
    THEN [err |-> NoErr, adapter |-> "MissingPosition"]
    ELSE [err |-> "unsupported protocol", adapter |-> Nil]

\* a bid id no configuration exists for
UnknownBid == CHOOSE b \in 0..9 : b \notin DOMAIN bidMap

Coin(denom, amount) == [denom |-> denom, amount |-> amount]

\* the raw amounts the chain reports for an operation of an adapter
ChainData(op) ==
    IF op = "tvl" THEN <<Coin("uatom", 20), Coin("utok", 10)>>
    ELSE IF op = "principal" THEN <<Coin("utok", 10), Coin("usk", 20)>>
    ELSE <<Coin("utok", 10)>>

\* the gateway's error "user doesn't have position"
NoPosition == [nopos |-> TRUE]

ChainAnswers(protocol, op) ==
    {Fail, [data |-> ChainData(op)]} \cup
    (IF protocol = AstroportNeutron /\ op = "rewards" THEN {NoPosition} ELSE {})

\* the orders in which a Go map with these entries may be ranged over
Orders(items) ==
    IF Len(items) = 2 THEN {items, <<items[2], items[1]>>} ELSE {items}

Asset(denom, amount, usd, display) ==
    [Denom |-> denom, Amount |-> amount, USDValue |-> usd, DisplayName |-> display]

Holdings(balances, usd, atom) ==
    [Balances |-> balances, TotalUSDC |-> usd, TotalAtom |-> atom]

EmptyHoldings == Holdings(<<>>, Zero, Zero)

VenueHoldings(tvl, principal, rewards) ==
    [VenueTotal |-> tvl, AddressPrincipal |-> principal, AddressRewards |-> rewards]

\* func createHoldings(assets []Asset, totalUSD float64, atomPrice float64) *Holdings
createHoldings(assets, totalUSD, atomPrice) ==
    Holdings(assets, totalUSD,
             IF atomPrice > 0 THEN RatDiv(totalUSD, Rat(atomPrice, 1)) ELSE Zero)

(***************************************************************************)
(* The state machine.                                                      *)
(***************************************************************************)
PS == PriceState(pricesInitialized, priceCache, skipCache)

SetPS(ps) == /\ pricesInitialized' = ps.init
             /\ priceCache' = ps.pc
             /\ skipCache' = ps.sc

Idle == [pc |-> "idle"]
NoRet == [op |-> "none"]

BidIds == DOMAIN bidMap

Init == /\ now = 0
        /\ proc = "boot"
        /\ pricesInitialized = FALSE
        /\ priceCache = Nil
        /\ skipCache = Nil
        /\ resultCache = [b \in BidIds |-> Nil]
        /\ req = Idle
        /\ obs = NoObs
        /\ ret = NoRet
        /\ out = NoRet
        /\ hist = [b \in BidIds |-> Nil]

\* minutes that pass in one step of the clock: a snapshot is fresh after one
\* step and stale after two
TickStep == (2 * PriceCacheTTL) \div 3

\* last instant of the clock
MaxTime == MaxTicks * TickStep

\* cache.New(30*time.Minute, 10*time.Minute): the janitor of the result cache
\* deletes the items whose expiration has passed
DeleteExpired(cache, t) ==
    [k \in DOMAIN cache |->
       IF cache[k] # Nil /\ t > cache[k].Expiration THEN Nil ELSE cache[k]]

\* the last successful computation of each bid, while its window lasts
WithinWindow(h, t) ==
    [k \in DOMAIN h |-> IF h[k] # Nil /\ t - h[k].at > ResultCacheTTL THEN Nil ELSE h[k]]

\* time passes; the janitor has run by the end of the step
Tick == /\ proc = "running"
        /\ now + TickStep <= MaxTime
        /\ now' = now + TickStep
        /\ resultCache' = DeleteExpired(resultCache, now')
        /\ hist' = WithinWindow(hist, now')
        /\ UNCHANGED <<proc, pricesInitialized, priceCache, skipCache,
                       req, obs, ret, out>>

\* func init(): initializePriceCache, its error only logged; a panic ends the process
Boot == /\ proc = "boot"
        /\ \E skipResp \in SkipAnswers, table \in FeedAnswers :
             LET r == initializePriceCache(PS, now, skipResp, table) IN
             /\ proc' = IF r.err = "panic" THEN "crashed" ELSE "running"
             /\ SetPS(r.ps)
             /\ obs' = [op |-> "init", err |-> r.err, skipFailed |-> skipResp = Fail,
                        feedReq |-> r.feedReq, skipReq |-> r.skipReq,
                        ids |-> r.ids]
        /\ UNCHANGED <<now, resultCache, req, ret, out, hist>>

(***************************************************************************)
(* main.go: computeHoldings, as the steps of the one call in progress.     *)
(***************************************************************************)
\* resultCache.Get: an item is found until its expiration has passed
resultCacheGet(cache, key, t) ==
    IF cache[key] # Nil /\ t <= cache[key].Expiration
    THEN [found |-> TRUE, value |-> cache[key].Object]
    ELSE [found |-> FALSE, value |-> <<>>]

\* faulty variant: the item is stored without its time to live
resultCacheSetExpired(cache, key, value, t) ==
    [cache EXCEPT ![key] = [Object |-> value, Expiration |-> t]]

\* resultCache.Set(key, value, cache.DefaultExpiration)
resultCacheSet(cache, key, value, t) ==
    [cache EXCEPT ![key] = [Object |-> value, Expiration |-> t + ResultCacheTTL]]

ComputeOut(bid, ok, err, value, cached, net) ==
    [op |-> "computeHoldings", bid |-> bid, ok |-> ok, err |-> err,
     value |-> value, cached |-> cached, net |-> net,
     inWindow |-> /\ bid \in BidIds
                  /\ hist[bid] # Nil
                  /\ now - hist[bid].at <= ResultCacheTTL,
     age |-> IF bid \in BidIds /\ hist[bid] # Nil THEN now - hist[bid].at ELSE 0,
     last |-> IF bid \in BidIds /\ hist[bid] # Nil THEN hist[bid].value ELSE <<>>]

\* the call for a new request: the bid lookup and the result cache
Request(bid) ==
    /\ proc = "running"
    /\ req = Idle
    /\ IF bid \notin BidIds
       THEN /\ out' = ComputeOut(bid, FALSE, "bid not found", <<>>, FALSE, FALSE)
            /\ req' = req
       ELSE LET c == resultCacheGet(resultCache, bid, now) IN
            IF c.found
            THEN /\ out' = ComputeOut(bid, TRUE, NoErr, c.value, TRUE, FALSE)
                 /\ req' = req
            ELSE /\ out' = NoRet
                 /\ req' = [pc |-> "assets", bid |-> bid, v |-> 1, op |-> "tvl",
                            assetData |-> Nil, items |-> <<>>, usd |-> Zero,
                            info |-> ZeroTokenInfo, adjusted |-> Zero,
                            balances |-> <<>>, totalUSD |-> Zero, totalAtom |-> Zero,
                            atomSeen |-> {}, atomFailed |-> FALSE, err |-> NoErr,
                            venue |-> <<>>, holdings |-> <<>>, net |-> FALSE]
    /\ UNCHANGED <<now, proc, pricesInitialized, priceCache, skipCache, resultCache,
                   obs, ret, hist>>

Protocol == bidMap[req.bid][req.v].Protocol

\* computeHoldings is about to return an error
Abort(err) ==
    /\ out' = out
    /\ req' = [req EXCEPT !.pc = "abort", !.err = err]

\* the venue loop of computeHoldings: the adapter is built and the catalog fetched
FetchAssets ==
    /\ proc = "running"
    /\ req.pc = "assets"
    /\ LET config == protocolConfigMap[Protocol]
           url == config.AssetListURL
           protocol == NewDexProtocolFromConfig(config, bidMap[req.bid][req.v])
       IN
       IF protocol.err # NoErr
       THEN /\ Abort("error creating protocol")
            /\ UNCHANGED <<skipCache, ret>>
       ELSE
       \E primaryResp \in PrimaryAnswersFor(url), skipResp \in SkipAnswers :
         LET r == fetchAssetList(skipCache, now, url, primaryResp, skipResp) IN
         /\ skipCache' = r.sc
         /\ ret' = [op |-> "fetchAssetList", err |-> r.err, info |-> r.info,
                    primary |-> primaryResp, skipErr |-> r.skipErr,
                    skipReq |-> r.skipReq,
                    secondary |-> IF r.sc = Nil THEN << >>
                                  ELSE SkipAssetsAt(r.sc, ChainIdOf(url))]
         /\ IF r.err # NoErr
            THEN Abort("error fetching asset list")
            ELSE /\ req' = [req EXCEPT !.pc = "query", !.op = "tvl",
                                       !.assetData = r.info, !.net = TRUE]
                 /\ out' = out
    /\ UNCHANGED <<now, proc, pricesInitialized, priceCache, resultCache, obs, hist>>

(***************************************************************************)
(* The adapters.  Astroport values each asset with getTokenValues and      *)
(* skips an asset it cannot value; Osmosis reads the catalog map directly, *)
(* fails on the first price error and converts the total to ATOM once.     *)
(***************************************************************************)
AdapterRet(r, ok, err, h) ==
    [op |-> r.op, adapter |-> bidMap[r.bid][r.v].Protocol, ok |-> ok, err |-> err,
     holdings |-> h, atomSeen |-> r.atomSeen, atomFailed |-> r.atomFailed,
     denoms |-> DOMAIN r.assetData.Tokens]

\* the accumulators of the next operation start empty
Fresh(r) == [r EXCEPT !.items = <<>>, !.usd = Zero, !.info = ZeroTokenInfo,
                      !.adjusted = Zero, !.balances = <<>>, !.totalUSD = Zero,
                      !.totalAtom = Zero, !.atomSeen = {}, !.atomFailed = FALSE]

\* an adapter operation returns h: computeHoldings goes on with the next one
FinishOp(r, h) ==
    /\ ret' = AdapterRet(r, TRUE, NoErr, h)
    /\ out' = out
    /\ req' =
         IF r.op = "tvl"
         THEN [Fresh(r) EXCEPT !.pc = "query", !.op = "principal",
                               !.venue = Append(r.venue, h)]
         ELSE IF r.op = "principal"
         THEN [Fresh(r) EXCEPT !.pc = "query", !.op = "rewards",
                               !.venue = Append(r.venue, h)]
         ELSE LET vh == VenueHoldings(r.venue[1], r.venue[2], h) IN
              IF r.v < Len(bidMap[r.bid])
              THEN [Fresh(r) EXCEPT !.pc = "assets", !.op = "tvl", !.v = r.v + 1,
                                    !.venue = <<>>, !.assetData = Nil,
                                    !.holdings = Append(r.holdings, vh)]
              ELSE [Fresh(r) EXCEPT !.pc = "return", !.venue = <<>>,
                                    !.holdings = Append(r.holdings, vh)]

\* an adapter operation returns an error: so does computeHoldings
FailOp(r, err) ==
    /\ ret' = AdapterRet(r, FALSE, err, EmptyHoldings)
    /\ Abort(IF r.op = "tvl" THEN "error computing TVL"
             ELSE IF r.op = "principal"
             THEN "error computing address principal holdings"
             ELSE "error computing address reward holdings")

\* the loop goes on with the next asset, or the operation returns its Holdings
NextAsset(r) ==
    LET r2 == [r EXCEPT !.items = Tail(r.items), !.pc = "token"] IN
    IF r2.items = <<>>
    THEN FinishOp(r2, Holdings(r2.balances, r2.totalUSD, r2.totalAtom))
    ELSE /\ req' = r2
         /\ UNCHANGED <<ret, out>>

\* the chain queries at the start of an adapter operation
Query ==
    /\ proc = "running"
    /\ req.pc = "query"
    /\ \E ans \in ChainAnswers(Protocol, req.op) :
         IF ans = Fail
         THEN FailOp(req, "querying chain")
         ELSE IF ans = NoPosition
         THEN FinishOp(req, EmptyHoldings)
         ELSE \E items \in (IF Protocol = Osmosis /\ req.op # "tvl"
                            THEN Orders(ans.data) ELSE {ans.data}) :
                /\ req' = [req EXCEPT !.pc = "token", !.items = items]
                /\ UNCHANGED <<ret, out>>
    /\ UNCHANGED <<now, proc, pricesInitialized, priceCache, skipCache, resultCache,
                   obs, hist>>

\* Astroport, first half of the loop body: GetTokenInfo, then the token's
\* price (getTokenValues up to "usdValue := adjustedAmount * price")
AstroportToken(skipResp, table) ==
    LET head == req.items[1]
        ti == GetTokenInfo(req.assetData, head.denom)
        p == getTokenPrice(PS, now, ti.info.CoingeckoID, skipResp, table)
    IN IF ~ti.ok
       THEN /\ NextAsset(req)
            /\ UNCHANGED <<pricesInitialized, priceCache, skipCache, obs>>
       ELSE /\ SetPS(p.ps)
            /\ obs' = PriceObs(PS, now, ti.info.CoingeckoID, p)
            /\ IF p.err = "panic" THEN FailOp(req, "panic")
               ELSE IF p.err # NoErr THEN NextAsset(req)
               ELSE /\ req' = [req EXCEPT
                                 !.pc = "atom", !.info = ti.info,
                                 !.adjusted = Adjust(head.amount, ti.info.Decimals),
                                 !.usd = RatMul(Adjust(head.amount, ti.info.Decimals),
                                                Rat(p.price, 1))]
                    /\ UNCHANGED <<ret, out>>

\* faulty variant: the USD total is raised before the ATOM price error is checked
AstroportAtomKeepsUSD(skipResp, table) ==
    LET a == getAtomPrice(PS, now, skipResp, table)
        head == req.items[1]
    IN /\ SetPS(a.ps)
       /\ obs' = PriceObs(PS, now, "cosmos", a)
       /\ IF a.err = "panic" THEN FailOp(req, "panic")
          ELSE IF a.err # NoErr
          THEN NextAsset([req EXCEPT !.atomFailed = TRUE,
                                     !.totalUSD = RatAdd(req.totalUSD, req.usd)])
          ELSE NextAsset([req EXCEPT
                 !.atomSeen = req.atomSeen \cup {a.price},
                 !.totalUSD = RatAdd(req.totalUSD, req.usd),
                 !.totalAtom = RatAdd(req.totalAtom,
                                      RatDiv(req.usd, Rat(a.price, 1))),
                 !.balances = Append(req.balances,
                                     Asset(head.denom, req.adjusted, req.usd,
                                           req.info.Display))])

\* Astroport, second half of the loop body: the ATOM price (the rest of
\* getTokenValues), the totals and the append
AstroportAtom(skipResp, table) ==
    LET a == getAtomPrice(PS, now, skipResp, table)
        head == req.items[1]
    IN /\ SetPS(a.ps)
       /\ obs' = PriceObs(PS, now, "cosmos", a)
       /\ IF a.err = "panic" THEN FailOp(req, "panic")
          ELSE IF a.err # NoErr
          THEN NextAsset([req EXCEPT !.atomFailed = TRUE])
          ELSE NextAsset([req EXCEPT
                 !.atomSeen = req.atomSeen \cup {a.price},
                 !.totalUSD = RatAdd(req.totalUSD, req.usd),
                 !.totalAtom = RatAdd(req.totalAtom,
                                      RatDiv(req.usd, Rat(a.price, 1))),
                 !.balances = Append(req.balances,
                                     Asset(head.denom, req.adjusted, req.usd,
                                           req.info.Display))])

\* Osmosis, the loop body of ComputeTVL and of calculateAssetValues
OsmosisToken(skipResp, table) ==
    LET head == req.items[1]
        tokenInfo == TokensAt(req.assetData, head.denom)
        adjustedAmount == Adjust(head.amount, tokenInfo.Decimals)
        p == getTokenPrice(PS, now, tokenInfo.CoingeckoID, skipResp, table)
        usdValue == RatMul(adjustedAmount, Rat(p.price, 1))
    IN /\ SetPS(p.ps)
       /\ obs' = PriceObs(PS, now, tokenInfo.CoingeckoID, p)
       /\ IF p.err # NoErr THEN FailOp(req, "fetching token price")
          ELSE /\ req' = [req EXCEPT
                            !.items = Tail(req.items),
                            !.pc = IF Tail(req.items) = <<>> THEN "final" ELSE "token",
                            !.totalUSD = RatAdd(req.totalUSD, usdValue),
                            !.balances = Append(req.balances,
                                                Asset(head.denom, adjustedAmount,
                                                      usdValue, tokenInfo.Display))]
               /\ UNCHANGED <<ret, out>>

\* Osmosis, after the loop: getAtomPrice and the conversion of the total
OsmosisAtom(skipResp, table) ==
    LET a == getAtomPrice(PS, now, skipResp, table) IN
    /\ SetPS(a.ps)
    /\ obs' = PriceObs(PS, now, "cosmos", a)
    /\ IF a.err # NoErr
       THEN FailOp([req EXCEPT !.atomFailed = TRUE], "fetching ATOM price")
       ELSE FinishOp([req EXCEPT !.atomSeen = {a.price}],
                     createHoldings(req.balances, req.totalUSD, a.price))

ValueToken ==
    /\ proc = "running"
    /\ req.pc = "token"
    /\ \E skipResp \in SkipAnswers, table \in FeedAnswers :
         IF Protocol = Osmosis THEN OsmosisToken(skipResp, table)
         ELSE AstroportToken(skipResp, table)
    /\ UNCHANGED <<now, proc, resultCache, hist>>

ValueAtom ==
    /\ proc = "running"
    /\ req.pc = "atom"
    /\ \E skipResp \in SkipAnswers, table \in FeedAnswers :
         AstroportAtom(skipResp, table)
    /\ UNCHANGED <<now, proc, resultCache, hist>>

FinalAtom ==
    /\ proc = "running"
    /\ req.pc = "final"
    /\ \E skipResp \in SkipAnswers, table \in FeedAnswers :
         OsmosisAtom(skipResp, table)
    /\ UNCHANGED <<now, proc, resultCache, hist>>

\* the end of computeHoldings: the result is cached and returned
Return ==
    /\ proc = "running"
    /\ req.pc = "return"
    /\ resultCache' = resultCacheSet(resultCache, req.bid, req.holdings, now)
    /\ out' = ComputeOut(req.bid, TRUE, NoErr, req.holdings, FALSE, req.net)
    /\ hist' = [hist EXCEPT ![req.bid] =
                  [value |-> req.holdings, at |-> now,
                   priced |-> IF priceCache = Nil THEN now
                              ELSE priceCache.Timestamp]]
    /\ req' = Idle
    /\ obs' = NoObs
    /\ ret' = NoRet
    /\ UNCHANGED <<now, proc, pricesInitialized, priceCache, skipCache>>

\* faulty variant: the venues computed before the error are cached
ReturnErrorCachesPartial ==
    /\ proc = "running"
    /\ req.pc = "abort"
    /\ resultCache' = resultCacheSet(resultCache, req.bid, req.holdings, now)
    /\ out' = ComputeOut(req.bid, FALSE, req.err, <<>>, FALSE, req.net)
    /\ req' = Idle
    /\ obs' = NoObs
    /\ ret' = NoRet
    /\ UNCHANGED <<now, proc, pricesInitialized, priceCache, skipCache, hist>>

\* computeHoldings returns its error: nothing is cached
ReturnError ==
    /\ proc = "running"
    /\ req.pc = "abort"
    /\ out' = ComputeOut(req.bid, FALSE, req.err, <<>>, FALSE, req.net)
    /\ req' = Idle
    /\ obs' = NoObs
    /\ ret' = NoRet
    /\ UNCHANGED <<now, proc, pricesInitialized, priceCache, skipCache, resultCache,
                   hist>>

Next == \/ Tick
        \/ Boot
        \/ \E bid \in BidIds \cup {UnknownBid} : Request(bid)
        \/ FetchAssets
        \/ Query
        \/ ValueToken
        \/ ValueAtom
        \/ FinalAtom
        \/ Return
        \/ ReturnError

Spec == Init /\ [][Next]_vars

(***************************************************************************)
(* The adapters of the other protocols.  Each operation is one call: it    *)
(* takes the venue's configuration p, the catalog assetData, the price     *)
(* state and the answers of the outside world, and returns the price state *)
(* it leaves, its Holdings or error and the number of network queries it   *)
(* has issued.                                                             *)
(***************************************************************************)
Mars == "Mars"
Neptune == "Neptune"
Elys == "Elys"
Duality == "Duality"
Ux == "Ux"

\* the largest ActiveShares of a venue configuration
MaxShares == 1

\* the answers of the outside world during one operation: the feed and the
\* Skip registry, and the chain's answer ans to the queries of the operation
\* (ans.failAt = k: the k-th query fails; 0: none does)
Env(ps, t, skipResp, table, ans) ==
    [ps |-> ps, t |-> t, skipResp |-> skipResp, table |-> table, ans |-> ans]

QueryFails(e, k) == e.ans.failAt = k

OpRet(ps, ok, err, h, net) ==
    [ps |-> ps, ok |-> ok, err |-> err, holdings |-> h, net |-> net,
     skipped |-> {}, unpriced |-> {}]

OpErr(ps, err, net) == OpRet(ps, FALSE, err, Nil, net)

\* getTokenValues, after getAtomPrice has returned a
AtomValueOf(p, usdValue, a) ==
    IF a.err # NoErr
    THEN [ps |-> a.ps, err |-> IF a.err = "panic" THEN "panic"
                               ELSE "fetching ATOM price",
          usd |-> Zero, atom |-> Zero, price |-> p.price, atomPrice |-> 0]
    ELSE [ps |-> a.ps, err |-> NoErr, usd |-> usdValue,
          atom |-> RatDiv(usdValue, Rat(a.price, 1)),
          price |-> p.price, atomPrice |-> a.price]

\* getTokenValues, after getTokenPrice has returned p
TokenValuesOf(e, p, adjustedAmount) ==
    IF p.err # NoErr
    THEN [ps |-> p.ps, err |-> IF p.err = "panic" THEN "panic"
                               ELSE "fetching token price",
          usd |-> Zero, atom |-> Zero, price |-> 0, atomPrice |-> 0]
    ELSE AtomValueOf(p, RatMul(adjustedAmount, Rat(p.price, 1)),
                     getAtomPrice(p.ps, e.t, e.skipResp, e.table))

\* func getTokenValues(adjustedAmount float64, tokenInfo ChainTokenInfo)
getTokenValues(e, ps, adjustedAmount, tokenInfo) ==
    TokenValuesOf(e, getTokenPrice(ps, e.t, tokenInfo.CoingeckoID, e.skipResp, e.table),
                  adjustedAmount)

\* the Holdings of one asset whose values are v
OneAssetRet(v, denom, tokenInfo, amount, net, err) ==
    IF v.err # NoErr
    THEN OpErr(v.ps, IF v.err = "panic" THEN "panic" ELSE err, net)
    ELSE OpRet(v.ps, TRUE, NoErr,
               Holdings(<<Asset(denom, amount, v.usd, tokenInfo.Display)>>,
                        v.usd, v.atom), net)

\* the tail of the single-token operations: getTokenValues and the Holdings
OneAsset(e, assetData, denom, tokenInfo, amount, net, err) ==
    OneAssetRet(getTokenValues(e, e.ps, amount, tokenInfo), denom, tokenInfo,
                amount, net, err)

\* main.go: MissingPosition returns (nil, nil) from each operation
Missing_ComputeTVL(p, assetData, e) == OpRet(e.ps, TRUE, NoErr, Nil, 0)
Missing_ComputeAddressPrincipalHoldings(p, assetData, e) ==
    OpRet(e.ps, TRUE, NoErr, Nil, 0)
Missing_ComputeAddressRewardHoldings(p, assetData, e) ==
    OpRet(e.ps, TRUE, NoErr, Nil, 0)

\* faulty variant: the amount is adjusted by a fixed number of decimals, not
\* by the decimals of the token
Neptune_ComputeTVLFixedDecimals(p, assetData, e) ==
    IF QueryFails(e, 1) THEN OpErr(e.ps, "error getting pool lent amount", 1)
    ELSE LET ti == GetTokenInfo(assetData, p.Denom) IN
         IF ~ti.ok THEN OpErr(e.ps, "error getting token info for denom", 1)
         ELSE OneAsset(e, assetData, p.Denom, ti.info,
                       Adjust(e.ans.amount, 0), 1,
                       "error calculating token values for denom")

\* neptune.go: getPoolLentAmount (one query), then the valuation of the
\* lent amount
Neptune_ComputeTVL(p, assetData, e) ==
    IF QueryFails(e, 1) THEN OpErr(e.ps, "error getting pool lent amount", 1)
    ELSE LET ti == GetTokenInfo(assetData, p.Denom) IN
         IF ~ti.ok THEN OpErr(e.ps, "error getting token info for denom", 1)
         ELSE OneAsset(e, assetData, p.Denom, ti.info,
                       Adjust(e.ans.amount, ti.info.Decimals), 1,
                       "error calculating token values for denom")

\* neptune.go: getPoolReceiptToken (one query) and calculateRedemptionRate
\* (the receipt token's total_supply and getPoolLentAmount: two queries), then
\* ActiveShares valued at the redemption rate
Neptune_ComputeAddressPrincipalHoldings(p, assetData, e) ==
    IF QueryFails(e, 1) THEN OpErr(e.ps, "error getting pool receipt token", 1)
    ELSE IF QueryFails(e, 2) \/ QueryFails(e, 3)
    THEN OpErr(e.ps, "error calculating redemption rate", e.ans.failAt)
    ELSE LET redemptionRate == RatDiv(Rat(e.ans.amount, 1), Rat(e.ans.supply, 1))
             ti == GetTokenInfo(assetData, p.Denom)
         IN IF ~ti.ok THEN OpErr(e.ps, "getting token info", 3)
            ELSE OneAsset(e, assetData, p.Denom, ti.info,
                          RatMul(Adjust(p.ActiveShares, ti.info.Decimals),
                                 redemptionRate),
                          3, "calculating token values")

\* neptune.go: return &Holdings{}, nil
Neptune_ComputeAddressRewardHoldings(p, assetData, e) ==
    OpRet(e.ps, TRUE, NoErr, EmptyHoldings, 0)

\* ux.go: getMarketSummary (one query), then the valuation of "supplied"
Ux_ComputeTVL(p, assetData, e) ==
    IF QueryFails(e, 1) THEN OpErr(e.ps, "error fetching market summary", 1)
    ELSE LET ti == GetTokenInfo(assetData, p.Denom) IN
         IF ~ti.ok THEN OpErr(e.ps, "error getting token info", 1)
         ELSE OneAsset(e, assetData, p.Denom, ti.info,
                       Adjust(e.ans.amount, ti.info.Decimals), 1,
                       "error calculating token values")

\* ux.go: the account balances (one query); a supplied amount of 0 is an error
Ux_ComputeAddressPrincipalHoldings(p, assetData, e) ==
    IF QueryFails(e, 1) THEN OpErr(e.ps, "fetching account balances", 1)
    ELSE IF e.ans.amount = 0
    THEN OpErr(e.ps, "no matching supplied amount found for denom", 1)
    ELSE LET ti == GetTokenInfo(assetData, p.Denom) IN
         IF ~ti.ok THEN OpErr(e.ps, "getting token info", 1)
         ELSE OneAsset(e, assetData, p.Denom, ti.info,
                       Adjust(e.ans.amount, ti.info.Decimals), 1,
                       "calculating token values")

\* ux.go: return &Holdings{Balances: []Asset{}, TotalUSDC: 0, TotalAtom: 0}, nil
Ux_ComputeAddressRewardHoldings(p, assetData, e) ==
    OpRet(e.ps, TRUE, NoErr, EmptyHoldings, 0)

\* mars.go: func (p MarsPosition) computeHoldings(assetData, getTokenAmountFunc);
\* queries is the number of queries getTokenAmountFunc issues and amount the
\* amount it returns
Mars_computeHoldings(p, assetData, e, queries, amount) ==
    LET ti == GetTokenInfo(assetData, p.Denom) IN
    IF ~ti.ok THEN OpErr(e.ps, "failed to get token info", 0)
    ELSE IF queries > 0 /\ QueryFails(e, 1)
    THEN OpErr(e.ps, "failed to load token amount", 1)
    ELSE OneAsset(e, assetData, p.Denom, ti.info,
                  Adjust(amount, ti.info.Decimals), queries,
                  "failed to compute token values")

Mars_ComputeTVL(p, assetData, e) ==
    Mars_computeHoldings(p, assetData, e, 1, e.ans.amount)

Mars_ComputeAddressPrincipalHoldings(p, assetData, e) ==
    Mars_computeHoldings(p, assetData, e, 1, e.ans.amount)

\* mars.go: p.computeHoldings(assetData, func() (int, error) { return 0, nil })
Mars_ComputeAddressRewardHoldings(p, assetData, e) ==
    Mars_computeHoldings(p, assetData, e, 0, 0)

\* the accumulators of a loop over the assets of a pool
LoopStart(ps) == [ps |-> ps, balances |-> <<>>, usd |-> Zero, atom |-> Zero,
                  skipped |-> {}, unpriced |-> {}, panic |-> FALSE]

\* the loop of Astroport, Duality and Elys over the assets of a pool: an
\* asset without TokenInfo or without values is skipped ("continue")
RECURSIVE ValueEach(_, _, _, _)

\* the end of the loop body: the values v of the asset are added, or not
ValueAppend(e, assetData, items, acc, info, adjustedAmount, v) ==
    IF v.err = "panic"
    THEN [acc EXCEPT !.ps = v.ps, !.panic = TRUE]
    ELSE IF v.err # NoErr
    THEN ValueEach(e, assetData, Tail(items),
                   [acc EXCEPT !.ps = v.ps,
                               !.unpriced = @ \cup {items[1].denom}])
    ELSE ValueEach(e, assetData, Tail(items),
                   [acc EXCEPT
                      !.ps = v.ps,
                      !.usd = RatAdd(@, v.usd),
                      !.atom = RatAdd(@, v.atom),
                      !.balances = Append(@, Asset(items[1].denom, adjustedAmount,
                                                   v.usd, info.Display))])

\* the loop body from the adjusted amount on
ValueAdjusted(e, assetData, items, acc, info, adjustedAmount) ==
    ValueAppend(e, assetData, items, acc, info, adjustedAmount,
                getTokenValues(e, acc.ps, adjustedAmount, info))

\* the loop body from the result ti of GetTokenInfo on
ValueHead(e, assetData, items, acc, ti) ==
    IF ~ti.ok
    THEN ValueEach(e, assetData, Tail(items),
                   [acc EXCEPT !.skipped = @ \cup {items[1].denom}])
    ELSE ValueAdjusted(e, assetData, items, acc, ti.info,
                       Adjust(items[1].amount, ti.info.Decimals))

ValueEach(e, assetData, items, acc) ==
    IF items = <<>> \/ acc.panic THEN acc
    ELSE ValueHead(e, assetData, items, acc, GetTokenInfo(assetData, items[1].denom))

\* the Holdings the loop returns
LoopRet(acc, net) ==
    IF acc.panic THEN OpErr(acc.ps, "panic", net)
    ELSE [OpRet(acc.ps, TRUE, NoErr, Holdings(acc.balances, acc.usd, acc.atom), net)
          EXCEPT !.skipped = acc.skipped, !.unpriced = acc.unpriced]

\* faulty variant: an asset without TokenInfo fails the operation
StrictRet(r) ==
    IF r.ok /\ r.skipped # {} THEN OpErr(r.ps, "token info not found", r.net) ELSE r

Duality_ComputeTVLStrict(p, assetData, e) ==
    IF QueryFails(e, 1) THEN OpErr(e.ps, "querying pool data", 1)
    ELSE StrictRet(LoopRet(ValueEach(e, assetData, e.ans.coins, LoopStart(e.ps)), 1))

\* duality.go: get_balance (one query), then the loop over its entries
Duality_ComputeTVL(p, assetData, e) ==
    IF QueryFails(e, 1) THEN OpErr(e.ps, "querying pool data", 1)
    ELSE LoopRet(ValueEach(e, assetData, e.ans.coins, LoopStart(e.ps)), 1)

\* the amounts simulate_withdraw_liquidity reports for an amount of LP shares,
\* in the order of its response
SimulatedAmounts(coins, shares) == [i \in DOMAIN coins |-> shares * coins[i].amount]

\* getPoolAssets: the denoms of token_0 and token_1 of get_config, in this order
getPoolAssets(coins) == [i \in DOMAIN coins |-> coins[i].denom]

\* faulty variant: the amounts are attributed to the denoms in reverse order
PairedReversed(amounts, poolAssets) ==
    [i \in DOMAIN amounts |-> Coin(poolAssets[Len(poolAssets) + 1 - i], amounts[i])]

\* for i, amountStr := range amounts { ... denom := poolAssets[i].Denom
Paired(amounts, poolAssets) ==
    [i \in DOMAIN amounts |-> Coin(poolAssets[i], amounts[i])]

\* the withdrawn amounts with the denoms the loop attributes them to
Withdrawn(coins, shares) ==
    Paired(SimulatedAmounts(coins, shares), getPoolAssets(coins))

\* duality.go: simulate_withdraw_liquidity for ActiveShares (one query), which
\* must report two amounts, getPoolAssets (one query) for their denoms, then
\* the loop
Duality_ComputeAddressPrincipalHoldings(p, assetData, e) ==
    IF QueryFails(e, 1) THEN OpErr(e.ps, "simulating withdrawal", 1)
    ELSE IF Len(e.ans.coins) # 2
    THEN OpErr(e.ps, "unexpected data format: expected 2 token amounts", 1)
    ELSE IF QueryFails(e, 2) THEN OpErr(e.ps, "getting pool assets", 2)
    ELSE LoopRet(ValueEach(e, assetData, Withdrawn(e.ans.coins, p.ActiveShares),
                           LoopStart(e.ps)), 2)

\* duality.go: return &Holdings{}, nil
Duality_ComputeAddressRewardHoldings(p, assetData, e) ==
    OpRet(e.ps, TRUE, NoErr, EmptyHoldings, 0)

\* Astroport ComputeTVL as one call: the pool query, then the loop
Astroport_ComputeTVL(p, assetData, e) ==
    IF QueryFails(e, 1) THEN OpErr(e.ps, "querying pool data", 1)
    ELSE LoopRet(ValueEach(e, assetData, e.ans.coins, LoopStart(e.ps)), 1)

\* Astroport ComputeAddressPrincipalHoldings as one call: GetLPToken, the
\* balance and the staked balance of getTotalLPAmount and the share query
\* (four queries), then the loop
Astroport_ComputeAddressPrincipalHoldings(p, assetData, e) ==
    IF QueryFails(e, 1) THEN OpErr(e.ps, "querying pair info", 1)
    ELSE IF QueryFails(e, 2) \/ QueryFails(e, 3)
    THEN OpErr(e.ps, "getting total LP amount", e.ans.failAt)
    ELSE IF QueryFails(e, 4) THEN OpErr(e.ps, "simulating withdrawal", 4)
    ELSE LoopRet(ValueEach(e, assetData, e.ans.coins, LoopStart(e.ps)), 4)

\* Elys (a Stablestake pool): no shares, no holdings; else the pool's
\* redemption rate and deposit denom (one query) value ActiveShares
Elys_ComputeAddressPrincipalHoldings(p, assetData, e) ==
    IF p.ActiveShares = 0 THEN OpRet(e.ps, TRUE, NoErr, EmptyHoldings, 0)
    ELSE IF QueryFails(e, 1) THEN OpErr(e.ps, "fetching stablestake pool info", 1)
    ELSE LET redemptionRate == Rat(e.ans.amount, e.ans.supply)
             depositDenom == e.ans.coins[1].denom
             ti == GetTokenInfo(assetData, depositDenom)
         IN IF ~ti.ok THEN OpErr(e.ps, "getting token info", 1)
            ELSE OneAsset(e, assetData, depositDenom, ti.info,
                          RatMul(Adjust(p.ActiveShares, ti.info.Decimals),
                                 redemptionRate),
                          1, "calculating token values")

\* an error message, as the phrases it is made of; strings.Contains(err.Error(), s)
Contains(msg, phrase) == \E i \in DOMAIN msg : msg[i] = phrase

\* the messages in the error bodies of the gateway
GatewayMessages == {<<"user", "doesn't have position">>, <<"out of gas">>}

\* what the gateway answers to a contract query: no answer (status 0), the
\* "data" of the contract's answer (possibly null), or an error status whose
\* body is a JSON WasmError with a message or some other text
GatewayAnswer(status, json, message, null, data) ==
    [status |-> status, json |-> json, message |-> message, null |-> null,
     data |-> data]

GatewayAnswers(data) ==
    {GatewayAnswer(0, FALSE, <<>>, TRUE, <<>>),
     GatewayAnswer(200, TRUE, <<>>, FALSE, data),
     GatewayAnswer(200, TRUE, <<>>, TRUE, <<>>)} \cup
    {GatewayAnswer(500, j, m, TRUE, <<>>) : j \in BOOLEAN, m \in GatewayMessages}

\* utils.go: func QuerySmartContractData(nodeUrl, contractAddress, query)
QuerySmartContractData(resp) ==
    IF resp.status = 0
    THEN [data |-> <<>>, err |-> <<"fetching data failed">>]
    ELSE IF resp.status # 200
    THEN IF resp.json
         THEN [data |-> <<>>,
               err |-> <<"error fetching smart contract data - wasm error response">>
                       \o resp.message]
         ELSE [data |-> <<>>, err |-> <<"fetching smart contract data", "500">>]
    ELSE IF resp.null
    THEN [data |-> <<>>, err |-> <<"smart contract returned no data">>]
    ELSE [data |-> resp.data, err |-> <<>>]

\* Astroport ComputeAddressRewardHoldings after the pending_rewards query
\* has returned q
AstroportRewardsOf(e, assetData, q) ==
    IF q.err # <<>>
    THEN IF Contains(q.err, "doesn't have position")
         THEN OpRet(e.ps, TRUE, NoErr, EmptyHoldings, 2)
         ELSE OpErr(e.ps, "querying rewards", 2)
    ELSE LoopRet(ValueEach(e, assetData, q.data, LoopStart(e.ps)), 2)

\* faulty variant: every failure of the pending_rewards query counts as
\* "no rewards"
Astroport_ComputeAddressRewardHoldingsAnyError(p, assetData, e) ==
    IF QueryFails(e, 1) THEN OpErr(e.ps, "querying pair info", 1)
    ELSE IF QuerySmartContractData(e.ans.gateway).err # <<>>
    THEN OpRet(e.ps, TRUE, NoErr, EmptyHoldings, 2)
    ELSE AstroportRewardsOf(e, assetData, QuerySmartContractData(e.ans.gateway))

\* Astroport ComputeAddressRewardHoldings: GetLPToken (one query), the
\* pending_rewards query, then the loop over the rewards
Astroport_ComputeAddressRewardHoldings(p, assetData, e) ==
    IF QueryFails(e, 1) THEN OpErr(e.ps, "querying pair info", 1)
    ELSE AstroportRewardsOf(e, assetData, QuerySmartContractData(e.ans.gateway))

\* the reward entries whose query succeeded
RECURSIVE Answered(_, _, _)
Answered(coins, k, failAt) ==
    IF coins = <<>> THEN <<>>
    ELSE IF k = failAt THEN Answered(Tail(coins), k + 1, failAt)
    ELSE <<coins[1]>> \o Answered(Tail(coins), k + 1, failAt)

\* Elys: no shares, no rewards; else one query for each reward denom (a
\* failed one is skipped), then the loop body for each answer
Elys_ComputeAddressRewardHoldings(p, assetData, e) ==
    IF p.ActiveShares = 0 THEN OpRet(e.ps, TRUE, NoErr, EmptyHoldings, 0)
    ELSE LoopRet(ValueEach(e, assetData, Answered(e.ans.coins, 1, e.ans.failAt),
                           LoopStart(e.ps)), Len(e.ans.coins))

(***************************************************************************)
(* The operations of an adapter, each called on its own: the venue and the *)
(* catalog are drawn at the start, after a package init that succeeded.    *)
(***************************************************************************)
Venue(protocol, denom, shares) ==
    [Protocol |-> protocol, Denom |-> denom, ActiveShares |-> shares]

\* the venue configurations: a placeholder, the venues that carry ActiveShares
\* and the others
OpsVenues ==
    {Venue(Demex, "", 0)}
    \cup {Venue(pr, d, n) : pr \in {Neptune}, d \in {"uatom", "usk"},
                            n \in 0..MaxShares}
    \cup {Venue(pr, "", n) : pr \in {Elys, Duality}, n \in 0..MaxShares}
    \cup {Venue(pr, d, 0) : pr \in {Mars, Ux}, d \in {"uatom", "usk"}}
    \cup {Venue(AstroportNeutron, "", 0)}

\* a chain registry payload where ATOM has six decimals
PrimaryB == [d \in {"uatom"} |->
               [symbol |-> "ATOM", decimals |-> 6, coingecko_id |-> "cosmos"]]

OpsPrimaryLists == {PrimaryA, PrimaryB}

\* the feed's price tables, with one that quotes cosmos at 10
OpsFeedTables ==
    FeedTables \cup {[id \in FeedIds |-> IF id = "cosmos" THEN 10 ELSE 1]}

\* the raw amounts and the pools the chain may report
RawAmounts == {0, 20, 5000000}

PoolLists == {<<Coin("uatom", 20), Coin("utok", 10)>>,
              <<Coin("utok", 10), Coin("usk", 20)>>,
              <<Coin("usk", 20), Coin("utok", 10)>>,
              <<Coin("utok", 10)>>}

\* the chain's answers to the queries of one operation
OpsAnswers ==
    {[failAt |-> k, amount |-> a, supply |-> n, coins |-> c] :
       k \in 0..4, a \in RawAmounts, n \in {1, 2}, c \in PoolLists}

InitOps ==
    /\ now = 0
    /\ proc = "running"
    /\ \E skip \in SkipPayloads, table \in OpsFeedTables, primary \in OpsPrimaryLists,
          p \in OpsVenues :
         LET boot == initializePriceCache(PriceState(FALSE, Nil, Nil), 0, skip, table)
             list == fetchAssetList(boot.ps.sc, 0,
                                    protocolConfigMap[AstroportNeutron].AssetListURL,
                                    primary, skip)
         IN /\ pricesInitialized = boot.ps.init
            /\ priceCache = boot.ps.pc
            /\ skipCache = boot.ps.sc
            /\ req = [pc |-> "adapter", venue |-> p, assetData |-> list.info]
    /\ resultCache = [b \in BidIds |-> Nil]
    /\ obs = NoObs
    /\ ret = NoRet
    /\ out = NoRet
    /\ hist = [b \in BidIds |-> Nil]

\* what the caller of an operation gets, with the call's inputs
OpsRet(op, p, ans, r) ==
    [op |-> op, adapter |-> p.Protocol, venue |-> p, ans |-> ans, ok |-> r.ok,
     err |-> r.err, holdings |-> r.holdings, net |-> r.net,
     skipped |-> r.skipped, unpriced |-> r.unpriced]

\* protocol.ComputeTVL(assetData)
TVLOf(p, assetData, e) ==
    CASE p.Protocol \in MissingProtocols -> Missing_ComputeTVL(p, assetData, e)
      [] p.Protocol = Neptune -> Neptune_ComputeTVL(p, assetData, e)
      [] p.Protocol = Ux -> Ux_ComputeTVL(p, assetData, e)
      [] p.Protocol = Mars -> Mars_ComputeTVL(p, assetData, e)
      [] p.Protocol = Duality -> Duality_ComputeTVL(p, assetData, e)
      [] p.Protocol = AstroportNeutron -> Astroport_ComputeTVL(p, assetData, e)

\* protocol.ComputeAddressPrincipalHoldings(assetData, address)
PrincipalOf(p, assetData, e) ==
    CASE p.Protocol \in MissingProtocols ->
           Missing_ComputeAddressPrincipalHoldings(p, assetData, e)
      [] p.Protocol = Neptune -> Neptune_ComputeAddressPrincipalHoldings(p, assetData, e)
      [] p.Protocol = Ux -> Ux_ComputeAddressPrincipalHoldings(p, assetData, e)
      [] p.Protocol = Mars -> Mars_ComputeAddressPrincipalHoldings(p, assetData, e)
      [] p.Protocol = Duality -> Duality_ComputeAddressPrincipalHoldings(p, assetData, e)
      [] p.Protocol = Elys -> Elys_ComputeAddressPrincipalHoldings(p, assetData, e)
      [] p.Protocol = AstroportNeutron ->
           Astroport_ComputeAddressPrincipalHoldings(p, assetData, e)

\* protocol.ComputeAddressRewardHoldings(assetData, address)
RewardsOf(p, assetData, e) ==
    CASE p.Protocol \in MissingProtocols ->
           Missing_ComputeAddressRewardHoldings(p, assetData, e)
      [] p.Protocol = Neptune -> Neptune_ComputeAddressRewardHoldings(p, assetData, e)
      [] p.Protocol = Ux -> Ux_ComputeAddressRewardHoldings(p, assetData, e)
      [] p.Protocol = Mars -> Mars_ComputeAddressRewardHoldings(p, assetData, e)
      [] p.Protocol = Duality -> Duality_ComputeAddressRewardHoldings(p, assetData, e)
      [] p.Protocol = Elys -> Elys_ComputeAddressRewardHoldings(p, assetData, e)

\* the snapshot is fresh while the operations are called: a refresh, were one
\* attempted, would find the upstreams down
OpsEnv(ans) == Env(PS, now, Fail, Fail, ans)

Called(op, r, ans) ==
    /\ SetPS(r.ps)
    /\ ret' = OpsRet(op, req.venue, ans, r)
    /\ req' = [req EXCEPT !.pc = "called"]
    /\ UNCHANGED <<now, proc, resultCache, obs, out, hist>>

ComputeTVL ==
    /\ req.pc = "adapter"
    /\ req.venue.Protocol # Elys
    /\ \E ans \in OpsAnswers :
         Called("tvl", TVLOf(req.venue, req.assetData, OpsEnv(ans)), ans)

ComputeAddressPrincipalHoldings ==
    /\ req.pc = "adapter"
    /\ \E ans \in OpsAnswers :
         Called("principal", PrincipalOf(req.venue, req.assetData, OpsEnv(ans)), ans)

ComputeAddressRewardHoldings ==
    /\ req.pc = "adapter"
    /\ req.venue.Protocol # AstroportNeutron
    /\ \E ans \in OpsAnswers :
         Called("rewards", RewardsOf(req.venue, req.assetData, OpsEnv(ans)), ans)

\* the answers to the queries of the Astroport reward operation
RewardAnswers ==
    {[failAt |-> k, gateway |-> g] :
       k \in {0, 1}, g \in UNION {GatewayAnswers(d) : d \in PoolLists}}

AstroportRewards ==
    /\ req.pc = "adapter"
    /\ req.venue.Protocol = AstroportNeutron
    /\ \E ans \in RewardAnswers :
         Called("rewards",
                Astroport_ComputeAddressRewardHoldings(req.venue, req.assetData,
                                                       OpsEnv(ans)), ans)

NextOps == \/ ComputeTVL
           \/ ComputeAddressPrincipalHoldings
           \/ ComputeAddressRewardHoldings
           \/ AstroportRewards

SpecOps == InitOps /\ [][NextOps]_vars

(***************************************************************************)
(* Historical prices: getNumiaHistoricalPrice scans the series the Numia    *)
(* feed returns for a denom; ComputeInitialHoldingsWithPrices values a      *)
(* Holdings at the prices of a timestamp.                                   *)
(***************************************************************************)
\* the longest series the feed returns
MaxSeries == 3

\* the IBC denom of ATOM on Osmosis, as ComputeInitialHoldingsWithPrices names it
NumiaAtom == "ibc/27394FB092D2ECCD56123C74F36E4C1F926001CEADA9CA97EA622B25F41E5EB2"

NumiaHistoricalPrice(time, close) == [Time |-> time, Close |-> close]

NumiaPoints == {NumiaHistoricalPrice(t, c) : t \in {100, 200, 400}, c \in {1, 2}}

\* the decoded responses of the feed: the series of at most MaxSeries points
NumiaSeries == UNION {[1..n -> NumiaPoints] : n \in 0..MaxSeries}

Timestamps == {250, 300}

abs64(n) == IF n < 0 THEN -n ELSE n

\* faulty variant: "diff <= smallestDiff", the last of the closest points wins
RECURSIVE ClosestLast(_, _, _, _, _)
ClosestLast(prices, timestamp, i, closest, smallestDiff) ==
    IF i > Len(prices) THEN closest
    ELSE LET diff == abs64(prices[i].Time - timestamp) IN
         IF closest = 0 \/ diff <= smallestDiff
         THEN ClosestLast(prices, timestamp, i + 1, i, diff)
         ELSE ClosestLast(prices, timestamp, i + 1, closest, smallestDiff)

\* the loop of getNumiaHistoricalPrice from index i on: closest is the index
\* of the closest point so far and smallestDiff its distance (closest = 0: no
\* point yet, smallestDiff is math.MaxInt64, which every diff here is below)
RECURSIVE Closest(_, _, _, _, _)
Closest(prices, timestamp, i, closest, smallestDiff) ==
    IF i > Len(prices) THEN closest
    ELSE LET diff == abs64(prices[i].Time - timestamp) IN
         IF closest = 0 \/ diff < smallestDiff
         THEN Closest(prices, timestamp, i + 1, i, diff)
         ELSE Closest(prices, timestamp, i + 1, closest, smallestDiff)

\* func getNumiaHistoricalPrice(denom string, timestamp int64) (float64, error);
\* resp is the feed's answer to the one request every call sends
getNumiaHistoricalPrice(denom, timestamp, resp) ==
    IF resp = Fail
    THEN [price |-> 0, err |-> "fetching historical price data", request |-> TRUE]
    ELSE LET closest == Closest(resp.prices, timestamp, 1, 0, 0) IN
         IF closest = 0
         THEN [price |-> 0, err |-> "no historical price data found",
               request |-> TRUE]
         ELSE [price |-> resp.prices[closest].Close, err |-> NoErr,
               request |-> TRUE]

\* one call of getNumiaHistoricalPrice, as ComputeInitialHoldingsWithPrices
\* made it
Lookup(denom, timestamp, r) ==
    [denom |-> denom, timestamp |-> timestamp, price |-> r.price, err |-> r.err,
     request |-> r.request]

RECURSIVE InitialLoop(_, _, _, _, _, _)

\* the loop body of ComputeInitialHoldingsWithPrices after the price lookup r
InitialPriced(balances, assetData, timestamp, atomPrice, answers, acc, r) ==
    IF r.err # NoErr
    THEN InitialLoop(Tail(balances), assetData, timestamp, atomPrice, Tail(answers),
                     [acc EXCEPT !.lookups =
                                   Append(@, Lookup(balances[1].Denom, timestamp, r))])
    ELSE InitialLoop(Tail(balances), assetData, timestamp, atomPrice, Tail(answers),
                     [acc EXCEPT
                        !.lookups = Append(@, Lookup(balances[1].Denom, timestamp, r)),
                        !.usd = RatAdd(@, RatMul(balances[1].Amount, Rat(r.price, 1))),
                        !.atom = RatAdd(@, RatDiv(RatMul(balances[1].Amount,
                                                         Rat(r.price, 1)),
                                                  Rat(atomPrice, 1))),
                        !.balances =
                           Append(@, Asset(balances[1].Denom, balances[1].Amount,
                                           RatMul(balances[1].Amount, Rat(r.price, 1)),
                                           balances[1].DisplayName))])

\* for _, asset := range holdings.Balances: an asset the catalog does not
\* have and an asset without a price are skipped
InitialLoop(balances, assetData, timestamp, atomPrice, answers, acc) ==
    IF balances = <<>> THEN acc
    ELSE IF balances[1].Denom \notin DOMAIN assetData.Tokens
    THEN InitialLoop(Tail(balances), assetData, timestamp, atomPrice, answers, acc)
    ELSE InitialPriced(balances, assetData, timestamp, atomPrice, answers, acc,
                       getNumiaHistoricalPrice(balances[1].Denom, timestamp,
                                               answers[1]))

InitialRet(acc) ==
    [ok |-> TRUE, err |-> NoErr,
     holdings |-> Holdings(acc.balances, acc.usd, acc.atom), lookups |-> acc.lookups]

\* ComputeInitialHoldingsWithPrices after the lookup a of the ATOM price
InitialAtom(holdings, assetData, timestamp, answers, a) ==
    IF a.err # NoErr
    THEN [ok |-> FALSE, err |-> "failed to get historical ATOM price",
          holdings |-> Nil, lookups |-> <<Lookup(NumiaAtom, timestamp, a)>>]
    ELSE InitialRet(InitialLoop(holdings.Balances, assetData, timestamp, a.price,
                                Tail(answers),
                                [balances |-> <<>>, usd |-> Zero, atom |-> Zero,
                                 lookups |-> <<Lookup(NumiaAtom, timestamp, a)>>]))

\* func ComputeInitialHoldingsWithPrices(holdings, assetData, timestamp);
\* answers are the feed's answers to the requests of the call, in order
ComputeInitialHoldingsWithPrices(holdings, assetData, timestamp, answers) ==
    InitialAtom(holdings, assetData, timestamp, answers,
                getNumiaHistoricalPrice(NumiaAtom, timestamp, answers[1]))

\* the series as the feed reports it a moment later: the closes have moved
Later(series) ==
    [i \in DOMAIN series |-> NumiaHistoricalPrice(series[i].Time, series[i].Close + 1)]

\* the decoded body of a response of the feed
NumiaResponse(series) == [prices |-> series]

NumiaAnswers(series) == {NumiaResponse(series), NumiaResponse(Later(series)), Fail}

\* the initial holdings of a bid and the catalogs they are valued against
InitialHoldings ==
    {Holdings(<<Asset("utok", Rat(3, 1), Zero, "TOK"),
                Asset(NumiaAtom, Rat(2, 1), Zero, "ATOM")>>, Zero, Zero),
     Holdings(<<Asset("utok", Rat(3, 1), Zero, "TOK")>>, Zero, Zero)}

NumiaCatalogs ==
    {[ChainID |-> "osmosis-1",
      Tokens |-> [d \in ds |-> ChainTokenInfo(d, d, 0, "")]] :
       ds \in {{NumiaAtom, "utok"}, {NumiaAtom}}}

InitNumia ==
    /\ now = 0
    /\ proc = "running"
    /\ pricesInitialized = FALSE
    /\ priceCache = Nil
    /\ skipCache = Nil
    /\ resultCache = [b \in BidIds |-> Nil]
    /\ req \in {[pc |-> "numia", series |-> s, timestamp |-> t, holdings |-> h,
                 assetData |-> c] :
                  s \in NumiaSeries, t \in Timestamps, h \in InitialHoldings,
                  c \in NumiaCatalogs}
    /\ obs = NoObs
    /\ ret = NoRet
    /\ out = NoRet
    /\ hist = [b \in BidIds |-> Nil]

\* one historical price is looked up
HistoricalPrice ==
    /\ req.pc = "numia"
    /\ \E resp \in {NumiaResponse(req.series), Fail} :
         LET r == getNumiaHistoricalPrice(NumiaAtom, req.timestamp, resp) IN
         ret' = [op |-> "getNumiaHistoricalPrice", denom |-> NumiaAtom,
                 timestamp |-> req.timestamp, resp |-> resp, price |-> r.price,
                 err |-> r.err, request |-> r.request]
    /\ req' = [req EXCEPT !.pc = "called"]
    /\ UNCHANGED <<now, proc, pricesInitialized, priceCache, skipCache, resultCache,
                   obs, out, hist>>

\* the initial holdings are valued at the prices of the timestamp
InitialHoldingsWithPrices ==
    /\ req.pc = "numia"
    /\ \E answers \in [1..(1 + Len(req.holdings.Balances)) -> NumiaAnswers(req.series)] :
         LET r == ComputeInitialHoldingsWithPrices(req.holdings, req.assetData,
                                                   req.timestamp, answers) IN
         ret' = [op |-> "ComputeInitialHoldingsWithPrices", ok |-> r.ok,
                 err |-> r.err, holdings |-> r.holdings, lookups |-> r.lookups]
    /\ req' = [req EXCEPT !.pc = "called"]
    /\ UNCHANGED <<now, proc, pricesInitialized, priceCache, skipCache, resultCache,
                   obs, out, hist>>

NextNumia == HistoricalPrice \/ InitialHoldingsWithPrices

SpecNumia == InitNumia /\ [][NextNumia]_vars

(***************************************************************************)
(* Concurrent callers.  net/http serves each request in a goroutine of its *)
(* own and prices.go guards its package-level variables with no lock, so    *)
(* two getTokenPrice calls interleave at the reads and writes of            *)
(* pricesInitialized, priceCache and skipCache.                             *)
(***************************************************************************)
\* minutes the clock may advance while the two calls run
MaxDrift == 1

Callers == {1, 2}

\* the feed may leave out an id it was asked for
ConcFeedTables == FeedTables \cup {[id \in {"tok"} |-> 1]}

\* a getTokenPrice call that has not started
Caller(id) == [pc |-> "start", id |-> id, sawStale |-> FALSE, snap |-> Nil,
               err |-> NoErr, price |-> 0, served |-> Nil]

\* the price state a process can be in when the calls arrive: after a
\* successful refresh at minute 0, or after an init() whose feed request failed
ConcStates ==
    {initializePriceCache(PriceState(FALSE, Nil, Nil), 0, skipResp, table).ps :
        skipResp \in SkipPayloads, table \in ConcFeedTables \cup {Fail}}

InitConc ==
    /\ now \in {0, PriceCacheTTL}
    /\ proc = "running"
    /\ \E ps \in ConcStates :
         /\ pricesInitialized = ps.init
         /\ priceCache = ps.pc
         /\ skipCache = ps.sc
    /\ resultCache = [b \in BidIds |-> Nil]
    /\ req \in {[pc |-> "conc", ticks |-> 0, c |-> <<Caller(a), Caller(b)>>] :
                  a \in FeedIds, b \in FeedIds}
    /\ obs = NoObs
    /\ ret = NoRet
    /\ out = NoRet
    /\ hist = <<>>

\* the caller i moves on as c
Moves(i, c) == req' = [req EXCEPT !.c[i] = c]

\* initializePriceCache, the check at its top
CheckFresh(i) ==
    /\ req.c[i].pc = "start"
    /\ IF SnapshotFresh(PS, now)
       THEN Moves(i, [req.c[i] EXCEPT !.pc = "read"])
       ELSE Moves(i, [req.c[i] EXCEPT !.pc = "skip", !.sawStale = TRUE])
    /\ UNCHANGED <<now, proc, pricesInitialized, priceCache, skipCache, resultCache,
                   obs, ret, out, hist>>

\* fetchSkipAssets(), its error ignored
RefreshSkip(i) ==
    /\ req.c[i].pc = "skip"
    /\ \E skipResp \in SkipAnswers :
         skipCache' = fetchSkipAssets(skipCache, now, skipResp).sc
    /\ Moves(i, [req.c[i] EXCEPT !.pc = "feed"])
    /\ UNCHANGED <<now, proc, pricesInitialized, priceCache, resultCache,
                   obs, ret, out, hist>>

\* the request to the feed for the ids of skipCache, the decoding of the
\* answer into the local map "prices" and "now := time.Now()"
AskFeed(i) ==
    /\ req.c[i].pc = "feed"
    /\ \E table \in ConcFeedTables \cup {Fail} :
         IF table = Fail
         THEN Moves(i, [req.c[i] EXCEPT !.pc = "done",
                                        !.err = "refreshing price cache"])
         ELSE Moves(i, [req.c[i] EXCEPT
                          !.pc = "write",
                          !.snap = SnapshotOf(table, CoinIDs(skipCache), now)])
    /\ UNCHANGED <<now, proc, pricesInitialized, priceCache, skipCache, resultCache,
                   obs, ret, out, hist>>

\* faulty variant: the prices are stored one by one into the shared map
InstallSnapshotMerged(old, snap) ==
    IF old = Nil THEN snap
    ELSE [Prices |-> [id \in DOMAIN old.Prices \cup DOMAIN snap.Prices |->
                        IF id \in DOMAIN snap.Prices THEN snap.Prices[id]
                        ELSE old.Prices[id]],
          Timestamp |-> snap.Timestamp]

\* priceCache = &PriceCache{Prices: prices, Timestamp: now}
InstallSnapshot(old, snap) == snap

WriteSnapshot(i) ==
    /\ req.c[i].pc = "write"
    /\ priceCache' = InstallSnapshot(priceCache, req.c[i].snap)
    /\ hist' = Append(hist, [by |-> i, snap |-> req.c[i].snap,
                             replaced |-> priceCache])
    /\ Moves(i, [req.c[i] EXCEPT !.pc = "flag"])
    /\ UNCHANGED <<now, proc, pricesInitialized, skipCache, resultCache,
                   obs, ret, out>>

\* pricesInitialized = true; return nil
SetInitialized(i) ==
    /\ req.c[i].pc = "flag"
    /\ pricesInitialized' = TRUE
    /\ Moves(i, [req.c[i] EXCEPT !.pc = "read"])
    /\ UNCHANGED <<now, proc, priceCache, skipCache, resultCache,
                   obs, ret, out, hist>>

\* getTokenPrice after initializePriceCache: priceCache.Prices[coingeckoId]
ReadPrice(i) ==
    /\ req.c[i].pc = "read"
    /\ IF req.c[i].id \in DOMAIN priceCache.Prices
       THEN Moves(i, [req.c[i] EXCEPT !.pc = "done", !.served = priceCache,
                                      !.price = priceCache.Prices[req.c[i].id]])
       ELSE Moves(i, [req.c[i] EXCEPT !.pc = "done", !.served = priceCache,
                                      !.err = "no price found"])
    /\ UNCHANGED <<now, proc, pricesInitialized, priceCache, skipCache, resultCache,
                   obs, ret, out, hist>>

\* a minute passes while the calls run
TickConc ==
    /\ req.ticks < MaxDrift
    /\ \E i \in Callers : req.c[i].pc # "done"
    /\ now' = now + 1
    /\ req' = [req EXCEPT !.ticks = @ + 1]
    /\ UNCHANGED <<proc, pricesInitialized, priceCache, skipCache, resultCache,
                   obs, ret, out, hist>>

NextConc ==
    \/ \E i \in Callers : CheckFresh(i)
    \/ \E i \in Callers : RefreshSkip(i)
    \/ \E i \in Callers : AskFeed(i)
    \/ \E i \in Callers : WriteSnapshot(i)
    \/ \E i \in Callers : SetInitialized(i)
    \/ \E i \in Callers : ReadPrice(i)
    \/ TickConc

SpecConc == InitConc /\ [][NextConc]_vars

(***************************************************************************)
(* Properties.                                                             *)
(***************************************************************************)
AdapterOps == {"tvl", "principal", "rewards"}

\* the denoms the chain reports in some operation
ChainDenoms ==
    UNION {{ChainData(op)[i].denom : i \in DOMAIN ChainData(op)} : op \in AdapterOps}

PriceCall == obs.op = "getTokenPrice"
AdapterReturned == ret.op \in AdapterOps /\ ret.ok
CatalogReturned == ret.op = "fetchAssetList" /\ ret.err = NoErr

\* C1: a getTokenPrice call made while the snapshot is younger than
\* PriceCacheTTL asks neither the price feed nor the Skip registry, leaves
\* the snapshot as it was and answers from it, whatever the id
C1_FreshSnapshotServesWithoutRequest ==
    PriceCall /\ obs.wasFresh =>
        /\ obs.feedReq = 0
        /\ obs.skipReq = 0
        /\ obs.after = obs.before
        /\ IF obs.id \in DOMAIN obs.before.Prices
           THEN obs.err = NoErr /\ obs.price = obs.before.Prices[obs.id]
           ELSE obs.err = "no price found"

\* a price answered from a snapshot fetched at an earlier instant
C1_Witness ==
    /\ PriceCall
    /\ obs.wasFresh
    /\ obs.at > obs.before.Timestamp
    /\ obs.err = NoErr

\* C2: a price getTokenPrice returns comes from a snapshot younger than
\* PriceCacheTTL; a call that finds the snapshot stale asks the feed first,
\* and answers with an error when the refresh fails
C2_NoPriceFromStaleSnapshot ==
    PriceCall =>
        /\ obs.err = NoErr =>
              /\ obs.after # Nil
              /\ obs.at - obs.after.Timestamp < PriceCacheTTL
              /\ obs.id \in DOMAIN obs.after.Prices
              /\ obs.price = obs.after.Prices[obs.id]
        /\ ~obs.wasFresh => obs.feedReq = 1 \/ obs.err # NoErr

\* the refresh of a stale snapshot that holds the id fails: an error
C2_Witness ==
    /\ PriceCall
    /\ ~obs.wasFresh
    /\ obs.before # Nil
    /\ obs.id \in DOMAIN obs.before.Prices
    /\ obs.err = "refreshing price cache"

\* C3: when the refresh step succeeded and the snapshot does not hold the
\* id, getTokenPrice answers "no price found", never a price
C3_UnknownIdIsAnError ==
    PriceCall /\ obs.err \notin {"refreshing price cache", "panic"} =>
        IF obs.id \in DOMAIN obs.after.Prices
        THEN obs.err = NoErr
        ELSE obs.err = "no price found"

\* the call refreshed the snapshot and the id is still absent
C3_Witness ==
    /\ PriceCall
    /\ obs.feedReq = 1
    /\ obs.err = "no price found"
    /\ obs.id \notin DOMAIN obs.after.Prices

\* C4: an adapter operation returns Holdings only if the ATOM price was
\* resolved and not zero whenever it was needed, and TotalAtom is a number
C4_AtomPriceZeroOrUnresolvedFails ==
    AdapterReturned =>
        /\ ~ret.atomFailed
        /\ 0 \notin ret.atomSeen
        /\ IsFinite(ret.holdings.TotalAtom)

\* C5: in the Holdings an adapter operation returns, TotalUSDC is the sum
\* of the USD values of the balances
C5_TotalUSDCIsSumOfBalances ==
    AdapterReturned => ret.holdings.TotalUSDC = SumUSD(ret.holdings.Balances)

\* Holdings returned with some assets kept and some dropped
C5_Witness ==
    /\ AdapterReturned
    /\ ret.holdings.Balances # <<>>
    /\ Len(ret.holdings.Balances) < Len(ChainData(ret.op))

\* C6: in the Holdings an adapter operation returns, TotalAtom is TotalUSDC
\* divided by one ATOM price (the cases of a zero or unresolved ATOM price
\* are those of C4 and are left out here)
C6_OneReferencePrice ==
    AdapterReturned /\ ~ret.atomFailed /\ ret.atomSeen # {} /\ 0 \notin ret.atomSeen =>
        \E p \in ret.atomSeen :
            ret.holdings.TotalAtom = RatDiv(ret.holdings.TotalUSDC, Rat(p, 1))

\* C7: the catalog fetchAssetList returns holds every primary denom with the
\* primary registry's values and every denom only the secondary registry
\* has under that chain id with the secondary registry's values
C7_PrimaryWinsSecondaryFills ==
    CatalogReturned =>
        LET T == ret.info.Tokens
            P == ret.primary
            S == ret.secondary
        IN /\ DOMAIN T = DOMAIN P \cup DOMAIN S
           /\ \A d \in DOMAIN P :
                T[d] = ChainTokenInfo(d, P[d].symbol, P[d].decimals, P[d].coingecko_id)
           /\ \A d \in DOMAIN S \ DOMAIN P :
                T[d] = ChainTokenInfo(d, S[d].RecommendedSymbol, S[d].Decimals,
                                      S[d].CoingeckoID)

\* a catalog with a denom the registries disagree on and a secondary-only denom
C7_Witness ==
    /\ CatalogReturned
    /\ \E d \in DOMAIN ret.primary \cap DOMAIN ret.secondary :
         ret.primary[d].decimals # ret.secondary[d].Decimals
    /\ DOMAIN ret.secondary \ DOMAIN ret.primary # {}

\* C8: GetTokenInfo fails for a denom the catalog does not hold, and the
\* Holdings an adapter operation returns value only denoms of the catalog
C8_AbsentDenomNeverValued ==
    /\ AdapterReturned =>
         \A i \in DOMAIN ret.holdings.Balances :
            ret.holdings.Balances[i].Denom \in ret.denoms
    /\ req.pc \in {"query", "token", "atom", "final"} =>
         \A d \in ChainDenoms \ DOMAIN req.assetData.Tokens :
            ~GetTokenInfo(req.assetData, d).ok

\* an operation over a position with a denom of neither registry has ended
C8_Witness ==
    /\ ret.op = "principal"
    /\ \E i \in DOMAIN ChainData(ret.op) : ChainData(ret.op)[i].denom \notin ret.denoms

\* C9: a failed fetch of the Skip registry neither ends the process nor
\* makes fetchAssetList fail, and the catalog holds every primary denom
C9_SecondaryFailureIsNotFatal ==
    /\ proc # "crashed"
    /\ ret.op = "fetchAssetList" /\ ret.skipErr =>
         /\ ret.err = NoErr
         /\ DOMAIN ret.primary \subseteq DOMAIN ret.info.Tokens

\* C10: a computeHoldings call made within ResultCacheTTL of a successful
\* computation for the same bid returns that computation's value from the
\* result cache, without any network call
C10_CachedResultWithinWindow ==
    out.op = "computeHoldings" /\ out.inWindow =>
        /\ out.ok
        /\ out.cached
        /\ ~out.net
        /\ out.value = out.last

\* a call answered from the result cache some time after the computation
C10_Witness ==
    /\ out.op = "computeHoldings"
    /\ out.inWindow
    /\ out.age > 0
    /\ out.cached

\* C11: computeHoldings for a bid with several venues goes on past a venue
\* that fails: a call that was computed (not served from the result cache)
\* succeeds and returns one entry for each venue of the bid.
C11_FailingVenueDoesNotAbortBid ==
    (/\ out.op = "computeHoldings"
     /\ out.bid \in BidIds
     /\ ~out.cached
     /\ Len(bidMap[out.bid]) > 1)
    => /\ out.ok
       /\ Len(out.value) = Len(bidMap[out.bid])

\* C12: a venue of a protocol that is not integrated never makes
\* computeHoldings return an error for its bid.
C12_MissingVenueDoesNotFailBid ==
    ~(/\ req.pc = "abort"
      /\ bidMap[req.bid][req.v].Protocol \in MissingProtocols)

\* an operation called on its own has returned
OpsReturned == ret.op \in AdapterOps /\ req.pc = "called"

\* C13: each operation of a MissingPosition adapter returns, without error
\* and without a network query, an empty Holdings.
C13_MissingReturnsEmptyHoldings ==
    (OpsReturned /\ ret.adapter \in MissingProtocols)
    => /\ ret.ok
       /\ ret.net = 0
       /\ ret.holdings = EmptyHoldings

\* C14: with ActiveShares = 0, the principal and the reward operation of
\* Elys, Neptune and Duality return an empty Holdings and issue no query.
C14_ZeroSharesShortCircuit ==
    (/\ OpsReturned
     /\ ret.op \in {"principal", "rewards"}
     /\ ret.adapter \in {Elys, Neptune, Duality}
     /\ ret.venue.ActiveShares = 0)
    => /\ ret.ok
       /\ ret.net = 0
       /\ ret.holdings = EmptyHoldings

\* the assets the loop of the returned operation ranged over
PoolOf ==
    IF ret.adapter = Duality /\ ret.op = "principal"
    THEN Withdrawn(ret.ans.coins, ret.venue.ActiveShares)
    ELSE ret.ans.coins

\* the denoms of the pool the catalog has no TokenInfo for
Unknown == {i \in DOMAIN PoolOf : PoolOf[i].denom \notin DOMAIN req.assetData.Tokens}

\* a pool of two denoms, all queries answered, TokenInfo missing for exactly
\* one denom
PartialFailure ==
    /\ OpsReturned
    /\ ret.op \in {"tvl", "principal"}
    /\ ret.adapter \in {AstroportNeutron, Duality}
    /\ ret.ans.failAt = 0
    /\ Len(PoolOf) = 2
    /\ PoolOf[1].denom # PoolOf[2].denom
    /\ Cardinality(Unknown) = 1

\* the asset of the pool that has TokenInfo, and its TokenInfo
Other == PoolOf[CHOOSE i \in DOMAIN PoolOf : i \notin Unknown]
OtherInfo == req.assetData.Tokens[Other.denom]

\* the snapshot has a price for the other denom and for ATOM
OtherPriced == {OtherInfo.CoingeckoID, "cosmos"} \subseteq DOMAIN priceCache.Prices

PriceLooked == ret.op = "getNumiaHistoricalPrice" /\ req.pc = "called"

\* the point i of the series is the first of the points closest to timestamp
FirstClosest(prices, timestamp, i) ==
    /\ \A j \in DOMAIN prices :
         abs64(prices[i].Time - timestamp) <= abs64(prices[j].Time - timestamp)
    /\ \A j \in 1..(i - 1) :
         abs64(prices[i].Time - timestamp) < abs64(prices[j].Time - timestamp)

\* C16: getNumiaHistoricalPrice returns the close of the point of the series
\* whose time is closest to the timestamp, the first such point in series
\* order when several are equally close, and an error for an empty series
C16_ClosestPointFirstOnTies ==
    (PriceLooked /\ ret.resp # Fail) =>
       IF ret.resp.prices = <<>>
       THEN ret.err # NoErr
       ELSE /\ ret.err = NoErr
            /\ \E i \in DOMAIN ret.resp.prices :
                 /\ FirstClosest(ret.resp.prices, ret.timestamp, i)
                 /\ ret.price = ret.resp.prices[i].Close

\* times [100, 200, 400] and timestamp 250: the close of the point at 200
C16_Witness ==
    /\ PriceLooked
    /\ ret.resp = NumiaResponse(<<NumiaHistoricalPrice(100, 1),
                                  NumiaHistoricalPrice(200, 2),
                                  NumiaHistoricalPrice(400, 1)>>)
    /\ ret.timestamp = 250
    /\ ret.err = NoErr
    /\ ret.price = 2

\* a valuation of initial holdings has returned
InitialValued == ret.op = "ComputeInitialHoldingsWithPrices" /\ req.pc = "called"

C18_FoldedRewardsAreEmpty ==
    (OpsReturned /\ ret.op = "rewards" /\ ret.adapter \in {Mars, Neptune, Duality, Ux})
    => ret.ok /\ ret.net = 0 /\ ret.holdings = EmptyHoldings

\* a single-token valuation of a raw on-chain amount has succeeded: the TVL
\* of Neptune, Ux and Mars and the principal of Ux and Mars
RawValued ==
    /\ OpsReturned
    /\ ret.ok
    /\ \/ ret.op = "tvl" /\ ret.adapter \in {Neptune, Ux, Mars}
       \/ ret.op = "principal" /\ ret.adapter \in {Ux, Mars}

\* the catalog entry of the venue's token and the prices of the snapshot
ValuedToken == req.assetData.Tokens[ret.venue.Denom]
TokenPrice == priceCache.Prices[ValuedToken.CoingeckoID]
ReferencePrice == priceCache.Prices["cosmos"]

\* x is the float64 n / d
IsQuotient(x, n, d) == IsFinite(x) /\ x.num * d = n * x.den

\* C19: a raw amount r of a token with decimals d and price p is valued as
\* Amount = r / 10^d and USDValue = Amount * p, and, when the reference price
\* a is above 0, as TotalAtom = USDValue / a; d is the token's catalog entry
\* wherever the amount is valued
C19_RawAmountValuedByDecimals ==
    RawValued =>
       /\ Len(ret.holdings.Balances) = 1
       /\ IsQuotient(ret.holdings.Balances[1].Amount, ret.ans.amount,
                     Pow10(ValuedToken.Decimals))
       /\ IsQuotient(ret.holdings.Balances[1].USDValue,
                     ret.holdings.Balances[1].Amount.num * TokenPrice,
                     ret.holdings.Balances[1].Amount.den)
       /\ ret.holdings.TotalUSDC = ret.holdings.Balances[1].USDValue
       /\ ReferencePrice > 0 =>
             IsQuotient(ret.holdings.TotalAtom,
                        ret.holdings.TotalUSDC.num,
                        ret.holdings.TotalUSDC.den * ReferencePrice)

\* r = 5,000,000, d = 6 and p = a = 10: Amount 5, USDValue 50, TotalAtom 5
C19_Witness ==
    /\ RawValued
    /\ ret.op = "tvl" /\ ret.adapter = Neptune
    /\ ret.ans.amount = 5000000
    /\ ValuedToken.Decimals = 6
    /\ TokenPrice = 10 /\ ReferencePrice = 10
    /\ ret.holdings.Balances[1].Amount = Rat(5, 1)
    /\ ret.holdings.Balances[1].USDValue = Rat(50, 1)
    /\ ret.holdings.TotalAtom = Rat(5, 1)

\* the step is an initializePriceCache call, in init() or in getTokenPrice,
\* that found the snapshot uninitialised or stale
BulkRefresh ==
    /\ obs' # obs
    /\ \/ obs'.op = "init"
       \/ obs'.op = "getTokenPrice" /\ ~obs'.wasFresh

\* ids are the distinct non-empty price-source ids of the Skip cache sc
AllKnownIds(sc, ids) ==
    /\ \A c \in DOMAIN sc.Assets : \A d \in DOMAIN sc.Assets[c] :
          sc.Assets[c][d].CoingeckoID # "" => sc.Assets[c][d].CoingeckoID \in ids
    /\ \A id \in ids :
          /\ id # ""
          /\ \E c \in DOMAIN sc.Assets : \E d \in DOMAIN sc.Assets[c] :
                sc.Assets[c][d].CoingeckoID = id

\* the snapshot of the refresh holds requested ids only and is what the
\* price of the call is read from
ServedFromSnapshot ==
    /\ priceCache'.Timestamp = now'
    /\ DOMAIN priceCache'.Prices \subseteq obs'.ids
    /\ (obs'.op = "getTokenPrice" /\ obs'.id \in DOMAIN priceCache'.Prices)
          => obs'.err = NoErr /\ obs'.price = priceCache'.Prices[obs'.id]

\* C20: a refresh of an uninitialised or stale snapshot sends exactly one
\* request to the price feed, for every distinct non-empty price-source id of
\* the Skip cache, and the requested ids are then served from its snapshot
C20_OneBatchedRequestForAllIds ==
    [][BulkRefresh =>
         /\ obs'.feedReq = 1
         /\ AllKnownIds(skipCache', obs'.ids)
         /\ obs'.err \notin {"fetching coingecko prices", "decoding coingecko response",
                           "refreshing price cache"}
               => ServedFromSnapshot]_vars

\* two getTokenPrice calls that both found the snapshot stale (or absent)
BothSawStale == req.pc = "conc" /\ \A i \in Callers : req.c[i].sawStale

\* the complete results of the refreshes: the snapshot each caller built
\* from the one answer it received
RefreshResults == {req.c[i].snap : i \in Callers} \ {Nil}

\* C21: when two concurrent getTokenPrice callers both find the snapshot
\* stale and both refresh it, the shared snapshot is one complete refresh
\* result, the one written last, never a mixture of the two answers, and
\* every caller reads its price from a complete refresh result
C21_LastWriteWinsNoMixture ==
    BothSawStale =>
       /\ hist # <<>> =>
             /\ priceCache = hist[Len(hist)].snap
             /\ priceCache \in RefreshResults
       /\ \A i \in Callers :
             req.c[i].served # Nil =>
                /\ req.c[i].served \in RefreshResults
                /\ IF req.c[i].id \in DOMAIN req.c[i].served.Prices
                   THEN /\ req.c[i].err = NoErr
                        /\ req.c[i].price = req.c[i].served.Prices[req.c[i].id]
                   ELSE req.c[i].err = "no price found"

\* both callers refreshed, their answers differ in the ids they price, and
\* both have been served
C21_Witness ==
    /\ BothSawStale
    /\ \A i \in Callers : req.c[i].pc = "done" /\ req.c[i].served # Nil
    /\ Len(hist) = 2
    /\ DOMAIN hist[1].snap.Prices # DOMAIN hist[2].snap.Prices
    /\ priceCache = hist[2].snap

\* the last getTokenPrice call of the operation in progress sent a request
\* to the price feed and the request failed
FeedRequestFailed ==
    PriceCall /\ obs.feedReq = 1 /\ obs.err = "refreshing price cache"

\* the last fetchAssetList call sent a request to the chain registry and the
\* request failed
RegistryRequestFailed == ret.op = "fetchAssetList" /\ ret.primary = Fail

\* C22: a failed request to the price feed or to the chain registry ends the
\* operation at once with an error (computeHoldings is about to return it),
\* so that no request follows it within the operation
C22_FailedRequestFailsOperation ==
    (FeedRequestFailed \/ RegistryRequestFailed) => req.pc = "abort"

\* some venue of the value holds a balance, which was valued at a price
HoldsPricedBalance(value) ==
    \E i \in DOMAIN value :
       \/ value[i].VenueTotal.Balances # <<>>
       \/ value[i].AddressPrincipal.Balances # <<>>
       \/ value[i].AddressRewards.Balances # <<>>

\* computeHoldings has answered from the result cache with the computation
\* hist remembers, which ended while its price snapshot was fresh
ServedFromResultCache ==
    /\ out.op = "computeHoldings"
    /\ out.ok
    /\ out.cached
    /\ hist[out.bid] # Nil
    /\ hist[out.bid].at - hist[out.bid].priced < PriceCacheTTL
    /\ HoldsPricedBalance(out.value)

\* C23: the prices behind a value computeHoldings returns were fetched from
\* the feed at most PriceCacheTTL before the return, also when the value comes
\* from the result cache: the age of the cached result plus the age the
\* price snapshot had when the result was computed stays within one window
C23_PricesAtMostOneWindowOld ==
    ServedFromResultCache =>
       out.age + (hist[out.bid].at - hist[out.bid].priced) <= PriceCacheTTL

\* the Astroport reward operation has sent its pending_rewards query
RewardsQueried ==
    /\ OpsReturned
    /\ ret.op = "rewards"
    /\ ret.adapter = AstroportNeutron
    /\ ret.ans.failAt # 1

\* the query failed: no answer, an error status or no data
RewardsQueryFailed == ret.ans.gateway.status # 200 \/ ret.ans.gateway.null

\* the error body of the gateway is a WasmError whose message, which
\* QuerySmartContractData puts into its error, has the phrase
SaysNoPosition ==
    /\ ret.ans.gateway.status \notin {0, 200}
    /\ ret.ans.gateway.json
    /\ \E i \in DOMAIN ret.ans.gateway.message :
          ret.ans.gateway.message[i] = "doesn't have position"

\* C24: when the pending_rewards query of Astroport's
\* ComputeAddressRewardHoldings fails with an error that carries the
\* gateway's message "doesn't have position", the operation returns an empty
\* Holdings without error; every other failure of the query is an error
C24_NoPositionIsEmptyRewards ==
    (RewardsQueried /\ RewardsQueryFailed) =>
       IF SaysNoPosition
       THEN ret.ok /\ ret.holdings = EmptyHoldings
       ELSE ~ret.ok

\* the gateway answers with the WasmError "user doesn't have position"
C24_Witness ==
    /\ RewardsQueried
    /\ RewardsQueryFailed
    /\ SaysNoPosition
    /\ ret.ok
    /\ ret.holdings = EmptyHoldings

\* the principal operation of Duality has had its withdrawal simulation
\* answered for a position with shares
WithdrawalSimulated ==
    /\ OpsReturned
    /\ ret.op = "principal"
    /\ ret.adapter = Duality
    /\ ret.venue.ActiveShares > 0
    /\ ret.ans.failAt # 1

\* the balance b is the i-th amount of the response under the i-th denom of
\* the pool, adjusted by the decimals of that denom
IsWithdrawnAt(b, i) ==
    /\ b.Denom = ret.ans.coins[i].denom
    /\ IsQuotient(b.Amount, ret.venue.ActiveShares * ret.ans.coins[i].amount,
                  Pow10(req.assetData.Tokens[ret.ans.coins[i].denom].Decimals))

\* the positions of the response the loop has dropped
Dropped == {i \in DOMAIN ret.ans.coins :
              ret.ans.coins[i].denom \in ret.skipped \cup ret.unpriced}

\* C25: Duality's ComputeAddressPrincipalHoldings reports the i-th amount of
\* the simulate_withdraw_liquidity response under the i-th denom of get_config
\* (token_0, then token_1), also when the other amount is dropped; a response
\* that does not hold exactly two amounts is an error
C25_AmountsMatchedPositionally ==
    WithdrawalSimulated =>
       /\ Len(ret.ans.coins) # 2 =>
            ~ret.ok /\ ret.err = "unexpected data format: expected 2 token amounts"
       /\ (Len(ret.ans.coins) = 2 /\ ret.ok) =>
            /\ \A k \in DOMAIN ret.holdings.Balances :
                 \E i \in 1..2 : IsWithdrawnAt(ret.holdings.Balances[k], i)
            /\ \A i \in (1..2) \ Dropped :
                 \E k \in DOMAIN ret.holdings.Balances :
                    IsWithdrawnAt(ret.holdings.Balances[k], i)
            /\ Len(ret.holdings.Balances) = 2 - Cardinality(Dropped)

\* the first amount is dropped and the second is reported under token_1
C25_Witness ==
    /\ WithdrawalSimulated
    /\ Len(ret.ans.coins) = 2
    /\ ret.ok
    /\ Dropped = {1}
    /\ Len(ret.holdings.Balances) = 1
    /\ IsWithdrawnAt(ret.holdings.Balances[1], 2)
    /\ ret.holdings.Balances[1].Amount # Zero

\* the last computeHoldings call, for a configured bid, returned an error and
\* no call is under way
ComputationFailed ==
    /\ out.op = "computeHoldings"
    /\ ~out.ok
    /\ out.bid \in BidIds
    /\ req = Idle

\* the entry of bid b is the value of the last successful computation of b,
\* with one VenueHoldings of three Holdings for every venue of the bid
CompleteEntry(b) ==
    /\ hist[b] # Nil
    /\ resultCache[b].Object = hist[b].value
    /\ resultCache[b].Expiration = hist[b].at + ResultCacheTTL
    /\ Len(resultCache[b].Object) = Len(bidMap[b])
    /\ \A v \in DOMAIN resultCache[b].Object :
         /\ resultCache[b].Object[v].VenueTotal # Nil
         /\ resultCache[b].Object[v].AddressPrincipal # Nil
         /\ resultCache[b].Object[v].AddressRewards # Nil

\* C26: a failed computeHoldings call stores nothing in the result cache:
\* every entry is the complete result of a successful computation for all
\* the venues of its bid, and after a failure the result cache has no valid
\* entry for the bid, so that the next request computes it again
C26_FailureStoresNothing ==
    /\ \A b \in BidIds : resultCache[b] # Nil => CompleteEntry(b)
    /\ ComputationFailed => ~resultCacheGet(resultCache, out.bid, now).found

\* the principal operation of bid 1 fails after its TVL was computed, while
\* the result of another bid is cached
C26_Witness ==
    /\ ComputationFailed
    /\ out.bid = 1
    /\ out.net
    /\ out.err = "error computing address principal holdings"
    /\ resultCache[1] = Nil
    /\ resultCache[2] # Nil

\* the errors of a refresh whose request to the feed failed or whose answer
\* could not be decoded, as init() and getTokenPrice report them
RefreshErrors == {"fetching coingecko prices", "decoding coingecko response",
                  "refreshing price cache"}

\* the step is an initializePriceCache call that asked the feed and failed
FailedRefresh ==
    /\ obs' # obs
    /\ obs'.op \in {"init", "getTokenPrice"}
    /\ obs'.feedReq = 1
    /\ obs'.err \in RefreshErrors

\* C27: a bulk refresh that fails at the request to the price feed or at the
\* decoding of its answer leaves the price snapshot, with its timestamp, and
\* the pricesInitialized flag as they were before the refresh
C27_FailedRefreshChangesNothing ==
    [][FailedRefresh =>
         /\ priceCache' = priceCache
         /\ pricesInitialized' = pricesInitialized]_vars

\* a refresh of a stale snapshot has failed and the stale snapshot is still
\* the shared one
C27_Witness ==
    /\ obs.op = "getTokenPrice"
    /\ obs.feedReq = 1
    /\ obs.err = "refreshing price cache"
    /\ pricesInitialized
    /\ priceCache # Nil
    /\ ~obs.wasFresh
    /\ now - priceCache.Timestamp >= PriceCacheTTL
    /\ obs.before = priceCache
    /\ DOMAIN priceCache.Prices # {}

\* C28: the timestamp of the shared price snapshot never decreases: every
\* snapshot a caller installs has a timestamp greater than or equal to that
\* of the snapshot it replaces, in every interleaving of concurrent refreshes
C28_SnapshotTimestampNeverDecreases ==
    req.pc = "conc" =>
       \A k \in DOMAIN hist :
          hist[k].replaced # Nil =>
             hist[k].snap.Timestamp >= hist[k].replaced.Timestamp

\* the step is a getTokenPrice call that follows a call, of init() or of
\* getTokenPrice, whose refresh failed
CallAfterFailedRefresh ==
    /\ obs.op \in {"init", "getTokenPrice"}
    /\ obs.err \in RefreshErrors
    /\ obs' # obs
    /\ obs'.op = "getTokenPrice"

\* the upstreams the call asked have answered
UpstreamsAnswered == obs'.err \notin RefreshErrors \cup {"panic"}

\* C29: price failures are not sticky: after a failed refresh, at start-up or
\* later, the next getTokenPrice call that finds the registry and the feed
\* answering performs a refresh and returns the price of any id the feed
\* prices
C29_PriceFailuresNotSticky ==
    [][(CallAfterFailedRefresh /\ UpstreamsAnswered) =>
          /\ obs'.feedReq = 1
          /\ obs'.id \in FeedIds => obs'.err = NoErr]_vars

\* the non-empty price-source ids of the catalog fetchAssetList returned to
\* the operation in progress
CatalogIds ==
    IF req.pc = "idle" \/ req.assetData = Nil THEN {}
    ELSE {req.assetData.Tokens[d].CoingeckoID : d \in DOMAIN req.assetData.Tokens}
         \ {""}

\* getTokenPrice was called for an id of the catalog that the feed prices,
\* and returned with the snapshot of a successful bulk refresh in place
CatalogIdLookedUp ==
    /\ obs.op = "getTokenPrice"
    /\ obs.id \in CatalogIds \cap FeedIds
    /\ obs.err \notin RefreshErrors \cup {"panic"}
    /\ pricesInitialized

\* C30: every token of the catalog with a non-empty price-source id that the
\* feed prices can be valued: after a successful bulk refresh getTokenPrice
\* succeeds for its id, whether the catalog has the id from the chain
\* registry or from the Skip registry
C30_CatalogIdsArePriced ==
    CatalogIdLookedUp => obs.err = NoErr

====
